---- MODULE Spec2Model ----
(***************************************************************************)
(* A model of wingfall: the progression store (src/src/save.rs) and the    *)
(* arcade shooter built on it (src/src/main.rs).                           *)
(*                                                                         *)
(* Units.  Times are integer milliseconds (get_time, get_frame_time and    *)
(* every timer of the source are seconds held in floats), positions are    *)
(* integer pixels and speeds pixels per second, so a displacement          *)
(* vel * dt is (vel * dt) \div 1000.  Strings are sequences of one-        *)
(* character strings.                                                      *)
(***************************************************************************)
EXTENDS Integers, Sequences, FiniteSets, TLC

VARIABLES
    fs,           \* the save directory: the two stored files and their .tmp files
    sv,           \* the save_* call in flight (SpecSave walks it step by step)
    loaded,       \* what the last load_profile / load_leaderboard calls returned
    pc,           \* where the process is: "boot", "loop", "exited", "crashed", ...
    profile,      \* main's PlayerProfile
    leaderboard,  \* main's Leaderboard (the sequence of its entries)
    mode,         \* main's AppMode
    name_input,   \* main's NameInput
    game,         \* main's Game
    now,          \* get_time()
    last,         \* what the last step did (what it read, returned and called)
    overworld     \* app::run's world and player (the overworld build)

vars == <<fs, sv, loaded, pc, profile, leaderboard, mode, name_input, game, now, last, overworld>>

(***************************************************************************)
(* Text: JSON as serde_json writes and reads it.  An object is held by its *)
(* keys; every leaf is the text of the value, character by character.      *)
(***************************************************************************)

DigitChars == <<"0", "1", "2", "3", "4", "5", "6", "7", "8", "9">>

IsDigit(c) == \E i \in 1..10 : DigitChars[i] = c

DigitValue(c) == (CHOOSE i \in 1..10 : DigitChars[i] = c) - 1

RECURSIVE JsonNumber(_)
JsonNumber(n) ==
    IF n < 10 THEN <<DigitChars[n + 1]>>
    ELSE JsonNumber(n \div 10) \o <<DigitChars[(n % 10) + 1]>>

RECURSIVE JsonEscape(_)
JsonEscape(s) ==
    IF s = <<>> THEN <<>>
    ELSE (IF Head(s) \in {"\"", "\\"} THEN <<"\\", Head(s)>> ELSE <<Head(s)>>)
         \o JsonEscape(Tail(s))

JsonString(s) == <<"\"">> \o JsonEscape(s) \o <<"\"">>

U8Max == 255

\* u32::MAX, as text: it is more than the model checker's integers hold
U32MaxText == <<"4", "2", "9", "4", "9", "6", "7", "2", "9", "5">>

RECURSIVE DigitsValue(_, _)
DigitsValue(raw, acc) ==
    IF raw = <<>> THEN acc ELSE DigitsValue(Tail(raw), acc * 10 + DigitValue(Head(raw)))

\* a <= b for two digit texts of one length
RECURSIVE DigitsLeq(_, _)
DigitsLeq(a, b) ==
    \/ a = <<>>
    \/ DigitValue(Head(a)) < DigitValue(Head(b))
    \/ Head(a) = Head(b) /\ DigitsLeq(Tail(a), Tail(b))

\* An unsigned integer of at most max (a digit text): digits only, no leading
\* zero, in range.
ParseUnsigned(raw, max) ==
    IF /\ Len(raw) \in 1..Len(max)
       /\ \A i \in 1..Len(raw) : IsDigit(raw[i])
       /\ (Len(raw) > 1 => raw[1] # "0")
       /\ (Len(raw) = Len(max) => DigitsLeq(raw, max))
    THEN [ok |-> TRUE, val |-> DigitsValue(raw, 0)]
    ELSE [ok |-> FALSE, val |-> 0]

\* The characters between the quotes, unescaped; ok is FALSE on a bare quote
\* or a backslash that escapes nothing.
RECURSIVE JsonUnescape(_)
JsonUnescape(t) ==
    IF t = <<>> THEN [ok |-> TRUE, val |-> <<>>]
    ELSE IF Head(t) = "\"" THEN [ok |-> FALSE, val |-> <<>>]
    ELSE IF Head(t) = "\\" THEN
        IF Len(t) >= 2 /\ t[2] \in {"\"", "\\"}
        THEN LET r == JsonUnescape(Tail(Tail(t)))
             IN  [ok |-> r.ok, val |-> <<t[2]>> \o r.val]
        ELSE [ok |-> FALSE, val |-> <<>>]
    ELSE LET r == JsonUnescape(Tail(t))
         IN  [ok |-> r.ok, val |-> <<Head(t)>> \o r.val]

ParseString(raw) ==
    IF Len(raw) >= 2 /\ raw[1] = "\"" /\ raw[Len(raw)] = "\""
    THEN JsonUnescape(SubSeq(raw, 2, Len(raw) - 1))
    ELSE [ok |-> FALSE, val |-> <<>>]

(***************************************************************************)
(* The stored records.                                                     *)
(***************************************************************************)

DefaultPermanent == [bullet_level |-> 1, max_lives |-> 3]

DefaultProfile == [username |-> <<>>, plane_style |-> 0, permanent |-> DefaultPermanent]

DefaultLeaderboard == <<>>

NoDoc == [present |-> {}, username |-> <<>>, plane_style |-> <<>>,
          bullet_level |-> <<>>, max_lives |-> <<>>, entries |-> <<>>]

\* serde_json::to_string_pretty of a PlayerProfile
ProfileJson(p) ==
    [present |-> {"username", "plane_style", "permanent",
                  "permanent.bullet_level", "permanent.max_lives"},
     username |-> JsonString(p.username),
     plane_style |-> JsonNumber(p.plane_style),
     bullet_level |-> JsonNumber(p.permanent.bullet_level),
     max_lives |-> JsonNumber(p.permanent.max_lives),
     entries |-> <<>>]

ScoreEntryJson(e) ==
    [present |-> {"username", "score"},
     username |-> JsonString(e.username),
     score |-> JsonNumber(e.score)]

\* serde_json::to_string_pretty of a Leaderboard
LeaderboardJson(lb) ==
    [present |-> {"entries"},
     username |-> <<>>, plane_style |-> <<>>, bullet_level |-> <<>>, max_lives |-> <<>>,
     entries |-> [i \in 1..Len(lb) |-> ScoreEntryJson(lb[i])]]

\* serde_json::from_str::<PlayerProfile>: plane_style alone has a default
ParseProfile(doc) ==
    LET name  == ParseString(doc.username)
        style == ParseUnsigned(doc.plane_style, JsonNumber(U8Max))
        level == ParseUnsigned(doc.bullet_level, JsonNumber(U8Max))
        lives == ParseUnsigned(doc.max_lives, JsonNumber(U8Max))
    IN  IF /\ {"username", "permanent", "permanent.bullet_level",
               "permanent.max_lives"} \subseteq doc.present
           /\ name.ok /\ level.ok /\ lives.ok
           /\ ("plane_style" \in doc.present => style.ok)
        THEN [ok |-> TRUE,
              val |-> [username |-> name.val,
                       plane_style |-> IF "plane_style" \in doc.present
                                       THEN style.val ELSE 0,
                       permanent |-> [bullet_level |-> level.val,
                                      max_lives |-> lives.val]]]
        ELSE [ok |-> FALSE, val |-> DefaultProfile]

ParseScoreEntry(d) ==
    LET name  == ParseString(d.username)
        score == ParseUnsigned(d.score, U32MaxText)
    IN  [ok |-> {"username", "score"} \subseteq d.present /\ name.ok /\ score.ok,
         val |-> [username |-> name.val, score |-> score.val]]

\* serde_json::from_str::<Leaderboard>
ParseLeaderboard(doc) ==
    IF /\ "entries" \in doc.present
       /\ \A i \in 1..Len(doc.entries) : ParseScoreEntry(doc.entries[i]).ok
    THEN [ok |-> TRUE,
          val |-> [i \in 1..Len(doc.entries) |-> ParseScoreEntry(doc.entries[i]).val]]
    ELSE [ok |-> FALSE, val |-> DefaultLeaderboard]

(***************************************************************************)
(* Files.  kind: "absent", "json" (a whole document), "partial" (a prefix  *)
(* of a document, as a failed or interrupted fs::write leaves it) or       *)
(* "garbage" (text that is no JSON).  readable is FALSE for a file that    *)
(* exists and that fs::read_to_string cannot read.                         *)
(***************************************************************************)

Absent == [kind |-> "absent", readable |-> FALSE, doc |-> NoDoc]

Whole(doc) == [kind |-> "json", readable |-> TRUE, doc |-> doc]

Partial(doc) == [kind |-> "partial", readable |-> TRUE, doc |-> doc]

Garbage == [kind |-> "garbage", readable |-> TRUE, doc |-> NoDoc]

Unreadable(doc) == [kind |-> "json", readable |-> FALSE, doc |-> doc]

Exists(file) == file.kind # "absent"

TmpOf(path) == IF path = "profile" THEN "profile_tmp" ELSE "leaderboard_tmp"

EmptyDir == [profile |-> Absent, profile_tmp |-> Absent,
             leaderboard |-> Absent, leaderboard_tmp |-> Absent]

Ok(v) == [tag |-> "Ok", val |-> v]

Err == [tag |-> "Err", val |-> "io"]

None == [some |-> FALSE, val |-> DefaultProfile]

Some(p) == [some |-> TRUE, val |-> p]

\* load_profile with the parse error returned to the caller like the read error
load_profile_ParseErr(f) ==
    IF ~Exists(f.profile) THEN Ok(None)
    ELSE IF ~f.profile.readable THEN Err
    ELSE IF f.profile.kind = "json" /\ ParseProfile(f.profile.doc).ok
         THEN Ok(Some(ParseProfile(f.profile.doc).val))
         ELSE Err

\* SaveStore::load_profile
load_profile(f) ==
    IF ~Exists(f.profile) THEN Ok(None)
    ELSE IF ~f.profile.readable THEN Err
    ELSE IF f.profile.kind = "json" /\ ParseProfile(f.profile.doc).ok
         THEN Ok(Some(ParseProfile(f.profile.doc).val))
         ELSE Ok(None)

\* SaveStore::load_leaderboard
load_leaderboard(f) ==
    IF ~Exists(f.leaderboard) THEN Ok(DefaultLeaderboard)
    ELSE IF ~f.leaderboard.readable THEN Err
    ELSE IF f.leaderboard.kind = "json" /\ ParseLeaderboard(f.leaderboard.doc).ok
         THEN Ok(ParseLeaderboard(f.leaderboard.doc).val)
         ELSE Ok(DefaultLeaderboard)

(***************************************************************************)
(* The filesystem calls of save_* and write_json_atomic.  Each is the set  *)
(* of its outcomes: whether it returned Ok, and the directory it leaves.   *)
(***************************************************************************)

Outcome(ok, f) == [ok |-> ok, fs |-> f]

\* SaveStore::ensure_dirs: fs::create_dir_all(&self.root)
ensure_dirs(f) == {Outcome(TRUE, f), Outcome(FALSE, f)}

\* fs::write(&tmp, json): creates or truncates tmp, then writes all of json
FsWriteTmp(f, path, doc) ==
    { Outcome(TRUE, [f EXCEPT ![TmpOf(path)] = Whole(doc)]),
      Outcome(FALSE, f),
      Outcome(FALSE, [f EXCEPT ![TmpOf(path)] = Partial(doc)]) }

\* if path.exists() { fs::remove_file(path)?; }
FsRemoveIfExists(f, path) ==
    IF Exists(f[path])
    THEN {Outcome(TRUE, [f EXCEPT ![path] = Absent]), Outcome(FALSE, f)}
    ELSE {Outcome(TRUE, f)}

\* fs::rename(tmp, path)
FsRename(f, path) ==
    { Outcome(TRUE, [f EXCEPT ![path] = f[TmpOf(path)], ![TmpOf(path)] = Absent]),
      Outcome(FALSE, f) }

\* write_json_atomic without its last call: the text stays in the .tmp file
SaveSteps_NoRename == <<"ensure_dirs", "write_tmp", "remove">>

\* The steps of a save_* call in the order the code takes them.
SaveSteps == <<"ensure_dirs", "write_tmp", "remove", "rename">>

SaveStep(f, path, doc, step) ==
    CASE step = "ensure_dirs" -> ensure_dirs(f)
      [] step = "write_tmp"   -> FsWriteTmp(f, path, doc)
      [] step = "remove"      -> FsRemoveIfExists(f, path)
      [] step = "rename"      -> FsRename(f, path)

\* A whole save_* call from step i on: every `?` returns the first error.
RECURSIVE SaveFrom(_, _, _, _)
SaveFrom(f, path, doc, i) ==
    IF i > Len(SaveSteps) THEN {Outcome(TRUE, f)}
    ELSE UNION { IF o.ok THEN SaveFrom(o.fs, path, doc, i + 1) ELSE {o}
                 : o \in SaveStep(f, path, doc, SaveSteps[i]) }

\* SaveStore::save_profile
save_profile(f, p) == SaveFrom(f, "profile", ProfileJson(p), 1)

\* SaveStore::save_leaderboard
save_leaderboard(f, lb) == SaveFrom(f, "leaderboard", LeaderboardJson(lb), 1)

(***************************************************************************)
(* The run-scoped records of main.rs.                                      *)
(***************************************************************************)

SCREEN_W == 480

SCREEN_H == 720

Min(a, b) == IF a < b THEN a ELSE b

Max(a, b) == IF a > b THEN a ELSE b

NoTempMode == [some |-> FALSE, mode |-> "Normal", until |-> 0]

TempMode(m, until) == [some |-> TRUE, mode |-> m, until |-> until]

\* Game::new with the lives of a default profile, whatever the profile holds
NewGame_DefaultLives(p) ==
    LET max_lives == DefaultProfile.permanent.max_lives
    IN  [player |-> [pos |-> <<SCREEN_W \div 2, SCREEN_H - 70>>,
                     size |-> <<32, 40>>,
                     lives |-> max_lives,
                     max_lives |-> max_lives,
                     speed |-> 320,
                     invincible_until |-> 0,
                     shot_cooldown |-> 140,
                     shot_timer |-> 0,
                     base_bullet_level |-> Min(Max(p.permanent.bullet_level, 1), 3),
                     manual_mode |-> "None",
                     temp_mode |-> NoTempMode],
         bullets |-> <<>>,
         enemies |-> <<>>,
         treasures |-> <<>>,
         particles |-> <<>>,
         score |-> 0,
         enemy_spawn_timer |-> 0,
         enemy_spawn_interval |-> 850000000,
         game_over_cooldown |-> 0,
         just_saved_score |-> FALSE,
         auto_fire |-> FALSE]

\* Game::new
NewGame(p) ==
    LET max_lives == Max(p.permanent.max_lives, 1)
    IN  [player |-> [pos |-> <<SCREEN_W \div 2, SCREEN_H - 70>>,
                     size |-> <<32, 40>>,
                     lives |-> max_lives,
                     max_lives |-> max_lives,
                     speed |-> 320,
                     invincible_until |-> 0,
                     shot_cooldown |-> 140,
                     shot_timer |-> 0,
                     base_bullet_level |-> Min(Max(p.permanent.bullet_level, 1), 3),
                     manual_mode |-> "None",
                     temp_mode |-> NoTempMode],
         bullets |-> <<>>,
         enemies |-> <<>>,
         treasures |-> <<>>,
         particles |-> <<>>,
         score |-> 0,
         enemy_spawn_timer |-> 0,
         enemy_spawn_interval |-> 850000000,
         game_over_cooldown |-> 0,
         just_saved_score |-> FALSE,
         auto_fire |-> FALSE]

NoError == [some |-> FALSE, text |-> "", until |-> 0]

SomeError(text, until) == [some |-> TRUE, text |-> text, until |-> until]

NoNameInput == [buffer |-> <<>>, error |-> NoError]

IsSpace(c) == c = " "

\* str::trim
RECURSIVE TrimStart(_)
TrimStart(s) == IF s # <<>> /\ IsSpace(Head(s)) THEN TrimStart(Tail(s)) ELSE s

RECURSIVE TrimEnd(_)
TrimEnd(s) ==
    IF s # <<>> /\ IsSpace(s[Len(s)]) THEN TrimEnd(SubSeq(s, 1, Len(s) - 1)) ELSE s

Trim(s) == TrimEnd(TrimStart(s))

(***************************************************************************)
(* Process start: main up to its loop.                                     *)
(***************************************************************************)

NoSave == [n |-> 0, path |-> "profile", doc |-> NoDoc, step |-> 0, old |-> Absent,
           result |-> "none", profile |-> DefaultProfile,
           leaderboard |-> DefaultLeaderboard]

NoLoad == [profile |-> Ok(None), leaderboard |-> Ok(DefaultLeaderboard)]

\* store.load_profile().ok().flatten().unwrap_or_default()
StartupProfile(r) == IF r.tag = "Ok" /\ r.val.some THEN r.val.val ELSE DefaultProfile

\* store.load_leaderboard().unwrap_or_default()
StartupLeaderboard(r) == IF r.tag = "Ok" THEN r.val ELSE DefaultLeaderboard

StartupMode(p) == IF Trim(p.username) = <<>> THEN "EnterName" ELSE "Menu"

Did(op) == [op |-> op]

Startup ==
    /\ pc = "boot"
    /\ loaded' = [profile |-> load_profile(fs), leaderboard |-> load_leaderboard(fs)]
    /\ profile' = StartupProfile(loaded'.profile)
    /\ leaderboard' = StartupLeaderboard(loaded'.leaderboard)
    /\ mode' = StartupMode(profile')
    /\ name_input' = NoNameInput
    /\ game' = NewGame(profile')
    /\ now' = 0
    /\ pc' = "loop"
    /\ last' = Did("startup")
    /\ UNCHANGED <<overworld, fs, sv>>

(***************************************************************************)
(* SpecSave: the store alone.  A process starts, calls save_profile or     *)
(* save_leaderboard, and the call is walked one filesystem call at a time; *)
(* the process may stop between any two of them, and is then started       *)
(* again.                                                                  *)
(***************************************************************************)

MaxSaves == 2

SaveChars == {"a", "\"", "\\", " "}

SaveNames == {<<"a">>, <<"a", "\"">>, <<"\\", " ">>}

SaveProfiles ==
    { [username |-> u, plane_style |-> s,
       permanent |-> [bullet_level |-> 3, max_lives |-> 9]]
      : u \in SaveNames, s \in {0, 12} }

SaveLeaderboards ==
    { <<[username |-> <<"a">>, score |-> 120]>>,
      <<[username |-> <<"a", "\"">>, score |-> 120], [username |-> <<"a">>, score |-> 0]>> }

StoredProfile == [username |-> <<"a">>, plane_style |-> 0,
                  permanent |-> [bullet_level |-> 2, max_lives |-> 4]]

(***************************************************************************)
(* The overworld: app::run's world of maps and portals, and the player     *)
(* walking in it.  Positions are <<x, y>> in whole pixels.                 *)
(***************************************************************************)

OVERWORLD_W == 960
OVERWORLD_H == 540

PortalTo(pos, to_map, to_pos, is_unlocked) ==
    [pos |-> pos, radius |-> 26, to_map |-> to_map, to_pos |-> to_pos,
     is_unlocked |-> is_unlocked]

\* MapsConfig::default: three maps, each with one unlocked portal to the next.
MapsConfigDefault ==
    [start_map |-> "qingtian",
     maps |-> << [id |-> "qingtian", spawn |-> <<120, 280>>,
                  portals |-> <<PortalTo(<<820, 280>>, "yanling", <<120, 260>>, TRUE)>>],
                 [id |-> "yanling", spawn |-> <<120, 260>>,
                  portals |-> <<PortalTo(<<820, 260>>, "tianyi", <<120, 300>>, TRUE)>>],
                 [id |-> "tianyi", spawn |-> <<120, 300>>,
                  portals |-> <<PortalTo(<<820, 300>>, "qingtian", <<120, 280>>, TRUE)>>] >>]

\* The table World::default and World::load_from_file collect from a
\* config: one entry per id, a later map of the same id replacing an earlier.
WorldOf(config) ==
    LET ids == {config.maps[i].id : i \in 1..Len(config.maps)}
        at(id) == CHOOSE i \in 1..Len(config.maps) :
                     /\ config.maps[i].id = id
                     /\ \A j \in (i+1)..Len(config.maps) : config.maps[j].id # id
    IN  [current |-> config.start_map,
         maps |-> [id \in ids |-> config.maps[at(id)]]]

\* What data/maps.json may hold: load_from_file checks neither the portals'
\* targets nor their locks.  Here: the built-in table, the same with
\* yanling's portal leading to a map the file does not define, and the same
\* with that portal locked.
MapFiles ==
    { MapsConfigDefault,
      [MapsConfigDefault EXCEPT !.maps[2].portals[1].to_map = "penglai"],
      [MapsConfigDefault EXCEPT !.maps[2].portals[1].is_unlocked = FALSE] }

current_map(world) == world.maps[world.current]

current_spawn(world) == current_map(world).spawn

switch_map(world, map_id) ==
    IF map_id \in DOMAIN world.maps THEN [world EXCEPT !.current = map_id] ELSE world

\* PortalConfig::contains: the distance to the portal is at most its radius.
contains(portal, pos) ==
    (pos[1] - portal.pos[1]) * (pos[1] - portal.pos[1])
      + (pos[2] - portal.pos[2]) * (pos[2] - portal.pos[2]) <= portal.radius * portal.radius

NoTeleport == [some |-> FALSE, to_map |-> "", to_pos |-> <<0, 0>>]

\* The first unlocked portal of the current map that holds pos.
try_teleport(world, pos) ==
    LET portals == current_map(world).portals
        open == {i \in 1..Len(portals) : portals[i].is_unlocked /\ contains(portals[i], pos)}
    IN  IF open = {} THEN NoTeleport
        ELSE LET i == CHOOSE k \in open : \A j \in open : k <= j
             IN  [some |-> TRUE, to_map |-> portals[i].to_map, to_pos |-> portals[i].to_pos]

PlayerNew(spawn) == [pos |-> spawn, speed |-> 180]

\* handle_interaction on <<world, player>>; e is is_key_pressed(E).
handle_interaction(ow, e) ==
    IF ~e THEN ow
    ELSE LET t == try_teleport(ow.world, ow.player.pos)
         IN  IF t.some
             THEN [world  |-> switch_map(ow.world, t.to_map),
                   player |-> [ow.player EXCEPT !.pos = t.to_pos]]
             ELSE ow

\* app::run before its loop, with the built-in world.
NoOverworld ==
    [world  |-> WorldOf(MapsConfigDefault),
     player |-> PlayerNew(current_spawn(WorldOf(MapsConfigDefault)))]

\* What the profile file may hold when a process starts.
StoredProfileFiles ==
    { Absent, Garbage,
      Whole(ProfileJson(StoredProfile)),
      Unreadable(ProfileJson(StoredProfile)),
      Whole([ProfileJson(StoredProfile) EXCEPT !.present = @ \ {"plane_style"}]),
      Whole([ProfileJson(StoredProfile) EXCEPT !.present = @ \ {"permanent.max_lives"}]),
      Whole([ProfileJson(StoredProfile) EXCEPT !.bullet_level = <<"2", "5", "6">>]) }

StoredLeaderboard == <<[username |-> <<"a">>, score |-> 30]>>

StoredLeaderboardFiles ==
    { Absent, Garbage,
      Whole(LeaderboardJson(StoredLeaderboard)),
      Unreadable(LeaderboardJson(StoredLeaderboard)),
      Whole([LeaderboardJson(StoredLeaderboard) EXCEPT !.present = {}]) }

InitSave ==
    /\ overworld = NoOverworld
    /\ fs \in { [EmptyDir EXCEPT !.profile = pf, !.leaderboard = lf]
                : pf \in StoredProfileFiles, lf \in StoredLeaderboardFiles }
    /\ sv = NoSave
    /\ loaded = NoLoad
    /\ pc = "boot"
    /\ profile = DefaultProfile
    /\ leaderboard = DefaultLeaderboard
    /\ mode = "EnterName"
    /\ name_input = NoNameInput
    /\ game = NewGame(DefaultProfile)
    /\ now = 0
    /\ last = Did("init")

BeginSave(path, doc, p, lb) ==
    sv' = [sv EXCEPT !.n = @ + 1, !.path = path, !.doc = doc, !.step = 1,
                     !.old = fs[path], !.result = "running",
                     !.profile = p, !.leaderboard = lb]

\* main changes its profile and calls store.save_profile(&profile)
SaveProfileCall ==
    /\ pc = "loop" /\ sv.n < MaxSaves
    /\ \E p \in SaveProfiles : profile' = p
    /\ BeginSave("profile", ProfileJson(profile'), profile', leaderboard)
    /\ pc' = "saving"
    /\ last' = Did("save_profile")
    /\ UNCHANGED <<overworld, fs, loaded, leaderboard, mode, name_input, game, now>>

\* main changes its leaderboard and calls store.save_leaderboard(leaderboard)
SaveLeaderboardCall ==
    /\ pc = "loop" /\ sv.n < MaxSaves
    /\ \E lb \in SaveLeaderboards : leaderboard' = lb
    /\ BeginSave("leaderboard", LeaderboardJson(leaderboard'), profile, leaderboard')
    /\ pc' = "saving"
    /\ last' = Did("save_leaderboard")
    /\ UNCHANGED <<overworld, fs, loaded, profile, mode, name_input, game, now>>

\* The next filesystem call of the save in flight; its error, or the end of
\* the steps, returns to the caller.
SaveStepRun ==
    /\ pc = "saving"
    /\ \E o \in SaveStep(fs, sv.path, sv.doc, SaveSteps[sv.step]) :
        /\ fs' = o.fs
        /\ IF ~o.ok THEN sv' = [sv EXCEPT !.result = "Err"] /\ pc' = "loop"
           ELSE IF sv.step = Len(SaveSteps)
                THEN sv' = [sv EXCEPT !.result = "Ok"] /\ pc' = "loop"
                ELSE sv' = [sv EXCEPT !.step = @ + 1] /\ pc' = "saving"
    /\ last' = Did("save_step")
    /\ UNCHANGED <<overworld, loaded, profile, leaderboard, mode, name_input, game, now>>

\* The process stops between two filesystem calls of a save (or inside
\* fs::write, which leaves a prefix of the text in the .tmp file).
Crash ==
    /\ pc = "saving"
    /\ \/ fs' = fs
       \/ /\ SaveSteps[sv.step] = "write_tmp"
          /\ fs' = [fs EXCEPT ![TmpOf(sv.path)] = Partial(sv.doc)]
    /\ sv' = [sv EXCEPT !.result = "Crashed"]
    /\ pc' = "boot"
    /\ last' = Did("crash")
    /\ UNCHANGED <<overworld, loaded, profile, leaderboard, mode, name_input, game, now>>

\* The process ends after a save returned, and is started again.
Restart ==
    /\ pc = "loop" /\ sv.n >= 1
    /\ last.op = "save_step"
    /\ pc' = "boot"
    /\ last' = Did("restart")
    /\ UNCHANGED <<overworld, fs, sv, loaded, profile, leaderboard, mode, name_input, game, now>>

NextSave ==
    \/ Startup
    \/ SaveProfileCall
    \/ SaveLeaderboardCall
    \/ SaveStepRun
    \/ Crash
    \/ Restart

SpecSave == InitSave /\ [][NextSave]_vars

(***************************************************************************)
(* Player queries and the progression rules of main.rs.                    *)
(***************************************************************************)

BulletModes == {"Normal", "Double", "Triple", "Spread", "Laser"}

TreasureKinds == {"BulletUpgradePermanent", "MaxLifePermanent", "LifePlus",
                  "InvincibleTimed", "SpreadTimed", "LaserTimed"}

PermanentKinds == {"BulletUpgradePermanent", "MaxLifePermanent"}

\* Player::is_invincible
is_invincible(player, t) == t < player.invincible_until

\* bullet_mode with the manual choice tested before the timed one
bullet_mode_ManualFirst(player, t) ==
    IF player.manual_mode # "None" THEN player.manual_mode
    ELSE IF player.temp_mode.some /\ t <= player.temp_mode.until
         THEN player.temp_mode.mode
    ELSE CASE player.base_bullet_level = 1 -> "Normal"
           [] player.base_bullet_level = 2 -> "Double"
           [] OTHER -> "Triple"

\* Player::bullet_mode
bullet_mode(player, t) ==
    IF player.temp_mode.some /\ t <= player.temp_mode.until
    THEN player.temp_mode.mode
    ELSE IF player.manual_mode # "None" THEN player.manual_mode
    ELSE CASE player.base_bullet_level = 1 -> "Normal"
           [] player.base_bullet_level = 2 -> "Double"
           [] OTHER -> "Triple"

\* Vec::sort_by(|a, b| b.score.cmp(&a.score)) is stable: an entry goes behind
\* the entries before it that score as much or more.
RECURSIVE InsertByScore(_, _)
InsertByScore(sorted, e) ==
    IF sorted = <<>> THEN <<e>>
    ELSE IF sorted[Len(sorted)].score >= e.score THEN Append(sorted, e)
    ELSE Append(InsertByScore(SubSeq(sorted, 1, Len(sorted) - 1), e), sorted[Len(sorted)])

RECURSIVE SortByScoreDesc(_)
SortByScoreDesc(entries) ==
    IF entries = <<>> THEN <<>>
    ELSE InsertByScore(SortByScoreDesc(SubSeq(entries, 1, Len(entries) - 1)),
                       entries[Len(entries)])

LeaderboardCap == 20

\* Vec::truncate
Truncate(entries, n) == SubSeq(entries, 1, Min(Len(entries), n))

\* record_score without the truncation
record_score_NoTruncate(lb, username, score) ==
    SortByScoreDesc(Append(lb, [username |-> username, score |-> score]))

\* record_score
record_score(lb, username, score) ==
    Truncate(SortByScoreDesc(Append(lb, [username |-> username, score |-> score])),
             LeaderboardCap)

\* u8 addition as a release build computes it
U8Add(a, b) == (a + b) % (U8Max + 1)

Applied(ok, f, p, player) == [ok |-> ok, fs |-> f, profile |-> p, player |-> player]

\* The permanent bullet upgrade without its cap
BulletUpgrade_NoCap(f, p, player) ==
    LET p1 == [p EXCEPT !.permanent.bullet_level = U8Add(@, 1)]
        pl == [player EXCEPT !.base_bullet_level = p1.permanent.bullet_level]
    IN  { Applied(o.ok, o.fs, p1, pl) : o \in save_profile(f, p1) }

\* The permanent bullet upgrade kept in memory only
BulletUpgrade_NoSave(f, p, player) ==
    LET p1 == [p EXCEPT !.permanent.bullet_level = Min(U8Add(@, 1), 3)]
        pl == [player EXCEPT !.base_bullet_level = p1.permanent.bullet_level]
    IN  {Applied(TRUE, f, p1, pl)}

\* apply_treasure, TreasureKind::BulletUpgradePermanent
BulletUpgrade(f, p, player) ==
    LET p1 == [p EXCEPT !.permanent.bullet_level = Min(U8Add(@, 1), 3)]
        pl == [player EXCEPT !.base_bullet_level = p1.permanent.bullet_level]
    IN  { Applied(o.ok, o.fs, p1, pl) : o \in save_profile(f, p1) }

\* The max-life upgrade counted up from the default instead of from the
\* profile's own value
MaxLifeUpgrade_FromDefault(f, p, player) ==
    LET p1 == [p EXCEPT !.permanent.max_lives = Min(U8Add(DefaultPermanent.max_lives, 1), 9)]
        new_max == p1.permanent.max_lives
        pl == [player EXCEPT !.max_lives = new_max,
                             !.lives = Min(player.lives + 1, new_max)]
    IN  { Applied(o.ok, o.fs, p1, pl) : o \in save_profile(f, p1) }

\* apply_treasure, TreasureKind::MaxLifePermanent
MaxLifeUpgrade(f, p, player) ==
    LET p1 == [p EXCEPT !.permanent.max_lives = Min(U8Add(@, 1), 9)]
        new_max == p1.permanent.max_lives
        pl == [player EXCEPT !.max_lives = new_max,
                             !.lives = Min(player.lives + 1, new_max)]
    IN  { Applied(o.ok, o.fs, p1, pl) : o \in save_profile(f, p1) }

\* The life pickup without its cap
LifePlus_NoCap(f, p, player) == {Applied(TRUE, f, p, [player EXCEPT !.lives = player.lives + 1])}

\* The extra life followed by a save of the profile
LifePlus_Saved(f, p, player) ==
    { Applied(o.ok, o.fs, p, [player EXCEPT !.lives = Min(player.lives + 1, player.max_lives)])
      : o \in save_profile(f, p) }

\* apply_treasure, TreasureKind::LifePlus
LifePlus(f, p, player) ==
    {Applied(TRUE, f, p, [player EXCEPT !.lives = Min(player.lives + 1, player.max_lives)])}

\* A timed fire pickup that leaves a pattern still running in place
TimedFire_KeepRunning(player, m, t, secs) ==
    IF player.temp_mode.some /\ t <= player.temp_mode.until
    THEN player
    ELSE [player EXCEPT !.temp_mode = TempMode(m, t + secs * 1000)]

\* apply_treasure, TreasureKind::SpreadTimed and TreasureKind::LaserTimed
TimedFire(player, m, t, secs) == [player EXCEPT !.temp_mode = TempMode(m, t + secs * 1000)]

\* apply_treasure at time t: every way it can return, with what it leaves
apply_treasure(f, p, player, kind, t) ==
    CASE kind = "BulletUpgradePermanent" -> BulletUpgrade(f, p, player)
      [] kind = "MaxLifePermanent" -> MaxLifeUpgrade(f, p, player)
      [] kind = "LifePlus" -> LifePlus(f, p, player)
      [] kind = "InvincibleTimed" ->
            {Applied(TRUE, f, p, [player EXCEPT !.invincible_until = t + 5000])}
      [] kind = "SpreadTimed" ->
            {Applied(TRUE, f, p, TimedFire(player, "Spread", t, 9))}
      [] kind = "LaserTimed" ->
            {Applied(TRUE, f, p, TimedFire(player, "Laser", t, 6))}

(***************************************************************************)
(* Geometry.                                                               *)
(***************************************************************************)

\* vel * dt, for a speed in pixels per second and a time in milliseconds
Disp(v, dt) == (v * dt) \div 1000

Move(pos, vel, dt) == <<pos[1] + Disp(vel[1], dt), pos[2] + Disp(vel[2], dt)>>

\* f32::clamp
Clamp(x, lo, hi) == IF x < lo THEN lo ELSE IF x > hi THEN hi ELSE x

\* Player::rect, Enemy::rect
RectAt(pos, size) ==
    [x |-> pos[1] - size[1] \div 2, y |-> pos[2] - size[2] \div 2,
     w |-> size[1], h |-> size[2]]

\* Rect::overlaps
Overlaps(a, b) ==
    /\ a.x <= b.x + b.w /\ a.x + a.w >= b.x
    /\ a.y <= b.y + b.h /\ a.y + a.h >= b.y

\* circle_hits_rect
circle_hits_rect(center, radius, rect) ==
    LET cx == Clamp(center[1], rect.x, rect.x + rect.w)
        cy == Clamp(center[2], rect.y, rect.y + rect.h)
        dx == center[1] - cx
        dy == center[2] - cy
    IN  dx * dx + dy * dy <= radius * radius

\* The concatenation of a sequence of sequences.
RECURSIVE Flatten(_)
Flatten(ss) == IF ss = <<>> THEN <<>> ELSE Head(ss) \o Flatten(Tail(ss))

\* The members of a sequence at the indices of a set, in order.
RECURSIVE Keep(_, _, _)
Keep(s, idx, i) ==
    IF i > Len(s) THEN <<>>
    ELSE (IF i \in idx THEN <<s[i]>> ELSE <<>>) \o Keep(s, idx, i + 1)

(***************************************************************************)
(* update_playing, stage by stage.  `in` is what the frame reads from the  *)
(* outside: the keys pressed in it and held down, the frame time dt, and   *)
(* the values rand::gen_range returns.  t is get_time().                   *)
(***************************************************************************)

\* The key block at the head of update_playing: each `if` in its order.
ManualKeys == <<"Key1", "Key2", "Key3", "Key4", "Key5", "Key0">>

ManualOf(key) ==
    CASE key = "Key1" -> "Normal" [] key = "Key2" -> "Double" [] key = "Key3" -> "Triple"
      [] key = "Key4" -> "Spread" [] key = "Key5" -> "Laser" [] key = "Key0" -> "None"

RECURSIVE ManualAfter(_, _, _)
ManualAfter(m, pressed, i) ==
    IF i > Len(ManualKeys) THEN m
    ELSE ManualAfter(IF ManualKeys[i] \in pressed THEN ManualOf(ManualKeys[i]) ELSE m,
                     pressed, i + 1)

StageKeys(g, in, t) ==
    [g EXCEPT !.auto_fire = IF "F" \in in.pressed THEN ~@ ELSE @,
              !.player.manual_mode = ManualAfter(@, in.pressed, 1),
              !.player.invincible_until = IF "I" \in in.pressed THEN t + 6000 ELSE @]

StageExpire(g, t) ==
    IF g.player.temp_mode.some /\ t > g.player.temp_mode.until
    THEN [g EXCEPT !.player.temp_mode = NoTempMode]
    ELSE g

Axis(down, minus, plus) ==
    (IF minus \cap down # {} THEN -1 ELSE 0) + (IF plus \cap down # {} THEN 1 ELSE 0)

\* One component of move_dir.normalize() * speed * dt: 7071 / 10000 is the
\* component of a diagonal unit vector.
Stride(a, other, speed, dt) ==
    IF a = 0 THEN 0
    ELSE IF other = 0 THEN a * Disp(speed, dt)
    ELSE a * ((speed * dt * 7071) \div 10000000)

StageMove(g, in) ==
    LET ax == Axis(in.down, {"Left", "A"}, {"Right", "D"})
        ay == Axis(in.down, {"Up", "W"}, {"Down", "S"})
        x  == g.player.pos[1] + Stride(ax, ay, g.player.speed, in.dt)
        y  == g.player.pos[2] + Stride(ay, ax, g.player.speed, in.dt)
    IN  [g EXCEPT !.player.pos = <<Clamp(x, 24, SCREEN_W - 24), Clamp(y, 40, SCREEN_H - 26)>>]

Bullet(pos, vel, radius, damage, from_player) ==
    [pos |-> pos, vel |-> vel, radius |-> radius, damage |-> damage,
     from_player |-> from_player]

\* shoot_player: the bullets of one shot
PlayerShot(player, t) ==
    LET p == player.pos
        m == bullet_mode(player, t)
        base_speed == 520
        B(dx, dy, vx, vy, r, d) == Bullet(<<p[1] + dx, p[2] + dy>>, <<vx, vy>>, r, d, TRUE)
    IN  CASE m = "Normal" -> <<B(0, -26, 0, -base_speed, 4, 1)>>
          [] m = "Double" -> <<B(-9, -26, 0, -base_speed, 4, 1), B(9, -26, 0, -base_speed, 4, 1)>>
          [] m = "Triple" -> <<B(-12, -26, 0, -base_speed, 4, 1), B(0, -26, 0, -base_speed, 4, 1),
                               B(12, -26, 0, -base_speed, 4, 1)>>
          [] m = "Spread" -> <<B(-10, -26, -120, -base_speed, 4, 1), B(0, -26, 0, -base_speed, 4, 1),
                               B(10, -26, 120, -base_speed, 4, 1)>>
          [] m = "Laser"  -> <<B(0, -30, 0, -((base_speed * 12) \div 10), 7, 3)>>

StageFire(g, in, t) ==
    LET timer == Max(g.player.shot_timer - in.dt, 0)
    IN  IF (g.auto_fire \/ "Space" \in in.down \/ "MouseLeft" \in in.down) /\ timer <= 0
        THEN [g EXCEPT !.bullets = @ \o PlayerShot(g.player, t),
                       !.player.shot_timer = g.player.shot_cooldown]
        ELSE [g EXCEPT !.player.shot_timer = timer]

\* spawn_enemy
SpawnedEnemy(r) ==
    [pos |-> <<r.x, -20>>, size |-> <<34, 28>>, vel |-> <<r.vx, r.speed>>,
     hp |-> IF r.hp_roll = 0 THEN 2 ELSE 1, shot_timer |-> r.shot_timer]

\* The threshold of `if game.enemy_spawn_interval > 0.35`, in nanoseconds
SpawnThreshold == 350000000

\* enemy_spawn_interval *= 0.995.  The interval is kept in nanoseconds, so
\* that the factor's half per cent is not lost in rounding: the f32 of the
\* source takes 178 shrinks from 0.85 to 0.34827915, this takes 178 to
\* 348279067.
Shrunk(interval) == interval - (interval \div 200)

\* if game.enemy_spawn_interval > 0.35 { game.enemy_spawn_interval *= 0.995; }
ShrinkStep(interval) == IF interval > SpawnThreshold THEN Shrunk(interval) ELSE interval

\* timer >= interval, for a timer in milliseconds and an interval in
\* nanoseconds
Elapsed(timer, interval) == timer > (interval - 1) \div 1000000

\* The spawn block
StageSpawn(g, in) ==
    LET timer == g.enemy_spawn_timer + in.dt
    IN  IF Elapsed(timer, g.enemy_spawn_interval)
        THEN [g EXCEPT !.enemy_spawn_timer = 0,
                       !.enemies = Append(@, SpawnedEnemy(in.spawn)),
                       !.enemy_spawn_interval = ShrinkStep(@)]
        ELSE [g EXCEPT !.enemy_spawn_timer = timer]

\* One enemy of the enemy loop: moved, and fired or not.
EnemyMoved(e, dt) ==
    LET pos == Move(e.pos, e.vel, dt)
    IN  [e EXCEPT !.pos = <<Clamp(pos[1], 20, SCREEN_W - 20), pos[2]>>,
                  !.shot_timer = @ - dt]

EnemyFires(e) ==
    e.shot_timer <= 0 /\ e.pos[2] > 20 /\ e.pos[2] < (SCREEN_H * 85) \div 100

\* shoot_enemy
EnemyShot(e, r) == Bullet(<<e.pos[1], e.pos[2] + 14>>, <<0, r.speed>>, 4, 1, FALSE)

StageEnemies(g, in) ==
    LET moved == [i \in 1..Len(g.enemies) |-> EnemyMoved(g.enemies[i], in.dt)]
    IN  [g EXCEPT !.enemies = [i \in 1..Len(moved) |->
                                  IF EnemyFires(moved[i])
                                  THEN [moved[i] EXCEPT !.shot_timer = in.enemy_shot.timer]
                                  ELSE moved[i]],
                  !.bullets = @ \o Flatten([i \in 1..Len(moved) |->
                                  IF EnemyFires(moved[i])
                                  THEN <<EnemyShot(moved[i], in.enemy_shot)>>
                                  ELSE <<>>])]

StageIntegrate(g, in) ==
    [g EXCEPT !.bullets = [i \in 1..Len(@) |-> [@[i] EXCEPT !.pos = Move(@, g.bullets[i].vel, in.dt)]],
              !.treasures = [i \in 1..Len(@) |-> [@[i] EXCEPT !.pos = Move(@, g.treasures[i].vel, in.dt)]]]

\* One of the three sparks of an invincible frame.
Spark(base, r) ==
    [pos |-> <<base[1] + r.offset[1], base[2] + r.offset[2]>>, vel |-> r.vel,
     radius |-> r.radius, life |-> r.life, color |-> "SKYBLUE"]

StageParticles(g, in, t) ==
    LET pushed == IF is_invincible(g.player, t)
                  THEN g.particles \o [i \in 1..3 |-> Spark(g.player.pos, in.spark)]
                  ELSE g.particles
        aged == [i \in 1..Len(pushed) |->
                    [pushed[i] EXCEPT !.life = @ - in.dt,
                                      !.pos = Move(@, pushed[i].vel, in.dt)]]
    IN  [g EXCEPT !.particles = Keep(aged, {i \in 1..Len(aged) : aged[i].life > 0}, 1)]

\* update_playing up to its collision pass
BeforeCollisions(g, in, t) ==
    StageParticles(
      StageIntegrate(
        StageEnemies(
          StageSpawn(
            StageFire(StageMove(StageExpire(StageKeys(g, in, t), t), in), in, t),
            in),
          in),
        in),
      in, t)

(***************************************************************************)
(* The collision pass and what follows it.                                 *)
(***************************************************************************)

Overlapped(b, enemies) ==
    {ei \in 1..Len(enemies) :
        circle_hits_rect(b.pos, b.radius, RectAt(enemies[ei].pos, enemies[ei].size))}

\* The inner loop over the enemies without its `break`
Struck_NoBreak(b, enemies) == Overlapped(b, enemies)

\* The enemies one player bullet damages: the inner loop stops at the first
\* rectangle the bullet's circle touches.
Struck(b, enemies) ==
    LET over == Overlapped(b, enemies)
    IN  IF over = {} THEN {} ELSE {CHOOSE ei \in over : \A ej \in over : ei <= ej}

\* The loop over bullet_alive: acc.enemies carries the lowered hit points,
\* acc.spent the indices whose bullet_alive entry became false, acc.struck
\* for each bullet the enemies it damaged.
RECURSIVE CollideFrom(_, _, _, _)
CollideFrom(bi, bullets, player_rect, acc) ==
    IF bi > Len(bullets) THEN acc
    ELSE LET b == bullets[bi]
             struck == IF b.from_player THEN Struck(b, acc.enemies) ELSE {}
             hit_player == ~b.from_player /\ circle_hits_rect(b.pos, b.radius, player_rect)
         IN  CollideFrom(bi + 1, bullets, player_rect,
                [enemies |-> [ei \in 1..Len(acc.enemies) |->
                                 IF ei \in struck
                                 THEN [acc.enemies[ei] EXCEPT !.hp = @ - b.damage]
                                 ELSE acc.enemies[ei]],
                 spent |-> acc.spent \cup (IF struck # {} \/ hit_player THEN {bi} ELSE {}),
                 struck |-> Append(acc.struck, struck),
                 player_hit |-> acc.player_hit \/ hit_player])

Collide(g) ==
    CollideFrom(1, g.bullets, RectAt(g.player.pos, g.player.size),
                [enemies |-> g.enemies, spent |-> {}, struck |-> <<>>, player_hit |-> FALSE])

InBounds(b) ==
    ~(b.pos[2] < -40 \/ b.pos[2] > SCREEN_H + 40 \/ b.pos[1] < -40 \/ b.pos[1] > SCREEN_W + 40)

\* The indices the loop over game.bullets.drain(..) pushes to remaining_bullets
Remaining(bullets, spent) == {bi \in 1..Len(bullets) : bi \notin spent /\ InBounds(bullets[bi])}

\* u32::saturating_add; a score stays far below u32::MAX here
SaturatingAdd(a, b) == a + b

TreasureOf(roll) ==
    IF roll < 3 THEN "MaxLifePermanent"
    ELSE IF roll < 8 THEN "BulletUpgradePermanent"
    ELSE IF roll < 14 THEN "InvincibleTimed"
    ELSE IF roll < 21 THEN "LaserTimed"
    ELSE IF roll < 27 THEN "SpreadTimed"
    ELSE "LifePlus"

\* maybe_drop_treasure: what it pushes
Dropped(at, r) ==
    IF r.roll >= 30 THEN <<>>
    ELSE <<[pos |-> at, vel |-> <<0, r.speed>>, kind |-> TreasureOf(r.roll), radius |-> 12]>>

\* A reward for every hit point below the last one
Reward_PerHitPoint(acc, e, ei, r, rams) ==
    [acc EXCEPT !.score = SaturatingAdd(@, IF e.hp < 0 THEN 20 ELSE 10),
                !.treasures = @ \o Dropped(e.pos, r)
                                \o (IF e.hp < 0 THEN Dropped(e.pos, r) ELSE <<>>),
                !.player_hit = @ \/ rams,
                !.destroyed = @ \cup {ei}]

\* if enemy.hp <= 0 { score += 10; maybe_drop_treasure(..); continue; }
Reward(acc, e, ei, r, rams) ==
    [acc EXCEPT !.score = SaturatingAdd(@, 10),
                !.treasures = @ \o Dropped(e.pos, r),
                !.player_hit = @ \/ rams,
                !.destroyed = @ \cup {ei}]

\* An enemy loop that lets nothing leave by the bottom
PastBottom_Never(e) == FALSE

\* if enemy.pos.y > SCREEN_H + 50.0 { continue; }
PastBottom(e) == e.pos[2] > SCREEN_H + 50

\* The loop over game.enemies.drain(..)
RECURSIVE SweepFrom(_, _, _, _, _)
SweepFrom(ei, enemies, player_rect, r, acc) ==
    IF ei > Len(enemies) THEN acc
    ELSE LET e == enemies[ei]
             rams == Overlaps(RectAt(e.pos, e.size), player_rect)
             hp == IF rams THEN 0 ELSE e.hp
         IN  IF PastBottom(e)
             THEN SweepFrom(ei + 1, enemies, player_rect, r, acc)
             ELSE IF hp <= 0
             THEN SweepFrom(ei + 1, enemies, player_rect, r, Reward(acc, e, ei, r, rams))
             ELSE SweepFrom(ei + 1, enemies, player_rect, r,
                    [acc EXCEPT !.keep = Append(@, e)])

Dist2(a, b) == (a[1] - b[1]) * (a[1] - b[1]) + (a[2] - b[2]) * (a[2] - b[2])

\* The loop over game.treasures.drain(..): every way it can end.  A failed
\* apply_treasure leaves the loop by `?` (ok = FALSE).
RECURSIVE CollectFrom(_, _, _, _)
CollectFrom(i, ts, t, acc) ==
    IF i > Len(ts) THEN {acc}
    ELSE IF ts[i].pos[2] > SCREEN_H + 50 THEN CollectFrom(i + 1, ts, t, acc)
    ELSE IF Dist2(ts[i].pos, acc.player.pos) <= (ts[i].radius + 18) * (ts[i].radius + 18)
    THEN UNION { IF a.ok
                 THEN CollectFrom(i + 1, ts, t,
                        [acc EXCEPT !.fs = a.fs, !.profile = a.profile, !.player = a.player,
                                    !.score_bonus = SaturatingAdd(@, 2),
                                    !.picked = Append(@, ts[i].kind)])
                 ELSE {[acc EXCEPT !.ok = FALSE, !.fs = a.fs, !.profile = a.profile,
                                   !.player = a.player,
                                   !.picked = Append(@, ts[i].kind)]}
                 : a \in apply_treasure(acc.fs, acc.profile, acc.player, ts[i].kind, t) }
    ELSE CollectFrom(i + 1, ts, t, [acc EXCEPT !.keep = Append(@, ts[i])])

\* What one call of update_playing returns and leaves behind; `frame` is
\* what happened inside it.
Returned(result, f, p, lb, g, frame) ==
    [result |-> result, fs |-> f, profile |-> p, leaderboard |-> lb, game |-> g,
     frame |-> frame]

\* The run-end branch without its record_score and save_leaderboard
RunEnd_NoRecord(f, p, lb, g, frame) == {Returned("Ok(true)", f, p, lb, g, frame)}

\* if game.player.lives <= 0 { ... return Ok(true) }
RunEnd(f, p, lb, g, frame) ==
    IF g.just_saved_score
    THEN {Returned("Ok(true)", f, p, lb, g, frame)}
    ELSE LET lb1 == record_score(lb, p.username, g.score)
         IN  { Returned(IF o.ok THEN "Ok(true)" ELSE "Err", o.fs, p, lb1,
                        [g EXCEPT !.just_saved_score = o.ok],
                        [frame EXCEPT !.recorded = TRUE])
               : o \in save_leaderboard(f, lb1) }

\* The damage block that takes a life for every frame with a hit
Damage_IgnoresInvincible(f, p, lb, g, player_hit, t, frame) ==
    IF player_hit
    THEN LET g1 == [g EXCEPT !.player.lives = @ - 1, !.player.invincible_until = t + 900]
             fr == [frame EXCEPT !.damaged = TRUE]
         IN  IF g1.player.lives <= 0
             THEN RunEnd(f, p, lb, g1, [fr EXCEPT !.run_end = TRUE])
             ELSE {Returned("Ok(false)", f, p, lb, g1, fr)}
    ELSE {Returned("Ok(false)", f, p, lb, g, frame)}

\* if player_hit && !game.player.is_invincible() { ... }
Damage(f, p, lb, g, player_hit, t, frame) ==
    IF player_hit /\ ~is_invincible(g.player, t)
    THEN LET g1 == [g EXCEPT !.player.lives = @ - 1, !.player.invincible_until = t + 900]
             fr == [frame EXCEPT !.damaged = TRUE]
         IN  IF g1.player.lives <= 0
             THEN RunEnd(f, p, lb, g1, [fr EXCEPT !.run_end = TRUE])
             ELSE {Returned("Ok(false)", f, p, lb, g1, fr)}
    ELSE {Returned("Ok(false)", f, p, lb, g, frame)}

update_playing(f, p, lb, g, in, t) ==
    LET g1 == BeforeCollisions(g, in, t)
        player_rect == RectAt(g1.player.pos, g1.player.size)
        hit == Collide(g1)
        remaining == Remaining(g1.bullets, hit.spent)
        swept == SweepFrom(1, hit.enemies, player_rect, in.drop,
                           [keep |-> <<>>, treasures |-> g1.treasures, score |-> g1.score,
                            player_hit |-> hit.player_hit, destroyed |-> {}])
        g2 == [g1 EXCEPT !.bullets = Keep(g1.bullets, remaining, 1),
                         !.enemies = swept.keep,
                         !.score = swept.score]
        frame == [bullets |-> g1.bullets, enemies |-> g1.enemies, struck |-> hit.struck,
                  hit_points |-> [ei \in 1..Len(hit.enemies) |-> hit.enemies[ei].hp],
                  spent |-> hit.spent, remaining |-> remaining,
                  destroyed |-> swept.destroyed, picked |-> <<>>,
                  player_hit |-> swept.player_hit,
                  score_before |-> g1.score,
                  drop_roll |-> in.drop.roll,
                  dropped |-> SubSeq(swept.treasures, Len(g1.treasures) + 1,
                                     Len(swept.treasures)),
                  before_damage |-> [lives |-> g2.player.lives,
                                     invincible_until |-> g2.player.invincible_until],
                  damaged |-> FALSE, run_end |-> FALSE, recorded |-> FALSE]
    IN  UNION { IF c.ok
                THEN Damage(c.fs, c.profile, lb,
                            [g2 EXCEPT !.player = c.player, !.treasures = c.keep,
                                       !.score = SaturatingAdd(@, c.score_bonus)],
                            swept.player_hit, t,
                            [frame EXCEPT !.picked = c.picked,
                                          !.before_damage =
                                              [lives |-> c.player.lives,
                                               invincible_until |-> c.player.invincible_until]])
                ELSE {Returned("Err", c.fs, c.profile, lb,
                               [g2 EXCEPT !.player = c.player, !.treasures = <<>>],
                               [frame EXCEPT !.picked = c.picked])}
                : c \in CollectFrom(1, swept.treasures, t,
                                    [ok |-> TRUE, fs |-> f, profile |-> p,
                                     player |-> g2.player, keep |-> <<>>,
                                     score_bonus |-> 0, picked |-> <<>>]) }

(***************************************************************************)
(* SpecMode: Player::bullet_mode on every player it can be asked about.    *)
(***************************************************************************)

MaxModeTime == 3

ModeTempModes ==
    {NoTempMode} \cup {TempMode(m, u) : m \in BulletModes, u \in {1, 2}}

InitMode ==
    /\ overworld = NoOverworld
    /\ \E tm \in ModeTempModes, mm \in BulletModes \cup {"None"}, lv \in 1..3 :
         game = [NewGame(DefaultProfile) EXCEPT !.player.temp_mode = tm,
                                                !.player.manual_mode = mm,
                                                !.player.base_bullet_level = lv]
    /\ now = 0
    /\ fs = EmptyDir /\ sv = NoSave /\ loaded = NoLoad /\ pc = "loop"
    /\ profile = DefaultProfile /\ leaderboard = DefaultLeaderboard
    /\ mode = "Playing" /\ name_input = NoNameInput
    /\ last = Did("init")

\* shoot_player asks the player for its mode
BulletModeCall ==
    /\ last' = [op |-> "bullet_mode", result |-> bullet_mode(game.player, now)]
    /\ UNCHANGED <<overworld, fs, sv, loaded, pc, profile, leaderboard, mode, name_input, game, now>>

ModeTimePasses ==
    /\ now < MaxModeTime
    /\ now' = now + 1
    /\ last' = Did("time")
    /\ UNCHANGED <<overworld, fs, sv, loaded, pc, profile, leaderboard, mode, name_input, game>>

NextMode == BulletModeCall \/ ModeTimePasses

SpecMode == InitMode /\ [][NextMode]_vars

(***************************************************************************)
(* SpecScore: record_score on a leaderboard.                               *)
(***************************************************************************)

MaxRecords == 3

\* n entries of one player, best first, in three score groups
StoredBoard(n) == [i \in 1..n |-> [username |-> <<"a">>, score |-> 10 * ((n - i) \div 7)]]

ScoreBoards == {<<>>, StoredBoard(19), StoredBoard(20)}

InitScore ==
    /\ overworld = NoOverworld
    /\ leaderboard \in ScoreBoards
    /\ last = [op |-> "init", n |-> 0, username |-> <<>>, score |-> 0, before |-> <<>>]
    /\ fs = EmptyDir /\ sv = NoSave /\ loaded = NoLoad /\ pc = "loop"
    /\ profile = DefaultProfile
    /\ mode = "Playing" /\ name_input = NoNameInput
    /\ game = NewGame(DefaultProfile)
    /\ now = 0

RecordScoreCall ==
    /\ last.n < MaxRecords
    /\ \E u \in {<<"a">>, <<"b">>}, s \in {0, 10, 30} :
        /\ leaderboard' = record_score(leaderboard, u, s)
        /\ last' = [op |-> "record_score", n |-> last.n + 1, username |-> u, score |-> s,
                    before |-> leaderboard]
    /\ UNCHANGED <<overworld, fs, sv, loaded, pc, profile, mode, name_input, game, now>>

NextScore == RecordScoreCall

SpecScore == InitScore /\ [][NextScore]_vars

(***************************************************************************)
(* SpecTreasure: apply_treasure as update_playing calls it; pickup after   *)
(* pickup on one profile and one player, each save ending any way it can.  *)
(***************************************************************************)

\* The clock stops here, in seconds.
MaxTreasureTime == 1

TreasureProfiles ==
    { [DefaultProfile EXCEPT !.username = <<"a">>,
                             !.permanent = [bullet_level |-> b, max_lives |-> m]]
      : b \in {2, 3}, m \in {8, 9} }

InitTreasure ==
    /\ overworld = NoOverworld
    /\ profile \in TreasureProfiles
    /\ fs = [EmptyDir EXCEPT !["profile"] = Whole(ProfileJson(profile))]
    /\ \E lives \in {1, profile.permanent.max_lives} :
         game = [NewGame(profile) EXCEPT !.player.lives = lives]
    /\ now = 0
    /\ sv = NoSave /\ loaded = NoLoad /\ pc = "loop"
    /\ leaderboard = DefaultLeaderboard
    /\ mode = "Playing" /\ name_input = NoNameInput
    /\ last = Did("init")

ApplyTreasureCall ==
    \E kind \in TreasureKinds :
      \E a \in apply_treasure(fs, profile, game.player, kind, now) :
        /\ fs' = a.fs
        /\ profile' = a.profile
        /\ game' = [game EXCEPT !.player = a.player]
        /\ last' = [op |-> "apply_treasure", kind |-> kind, ok |-> a.ok,
                    touched |-> a.fs # fs,
                    before |-> [file |-> fs["profile"], profile |-> profile,
                                player |-> game.player]]
        /\ UNCHANGED <<overworld, sv, loaded, pc, leaderboard, mode, name_input, now>>

TreasureTimePasses ==
    /\ now < MaxTreasureTime * 1000
    /\ now' = now + 1000
    /\ last' = Did("time")
    /\ UNCHANGED <<overworld, fs, sv, loaded, pc, profile, leaderboard, mode, name_input, game>>

NextTreasure == ApplyTreasureCall \/ TreasureTimePasses

SpecTreasure == InitTreasure /\ [][NextTreasure]_vars

(***************************************************************************)
(* SpecStep: update_playing as a function of the run.  The run starts in   *)
(* the middle of play and the step is applied frame after frame to the     *)
(* same Game, whatever it returned.                                        *)
(***************************************************************************)

\* Frames of a run under SpecStep.
MaxStepFrames == 7

\* get_frame_time() of every frame, in milliseconds
FrameTime == 150

NoSpawn == [x |-> 230, speed |-> 100, hp_roll |-> 0, vx |-> 0, shot_timer |-> 600]

NoSpark == [offset |-> <<16, 0>>, vel |-> <<-20, 10>>, radius |-> 1, life |-> 200]

Input(pressed, down, dt, drop_roll) ==
    [pressed |-> pressed, down |-> down, chars |-> <<>>, dt |-> dt,
     spawn |-> NoSpawn,
     enemy_shot |-> [timer |-> 900, speed |-> 280],
     drop |-> [roll |-> drop_roll, speed |-> 100],
     spark |-> NoSpark]

StepInputs ==
    { Input({}, {}, FrameTime, 50),
      Input({}, {"Space"}, FrameTime, 5),
      Input({"Key5", "Key0", "I"}, {"Left", "Up"}, FrameTime, 1) }

StepProfile ==
    [DefaultProfile EXCEPT !.username = <<"a">>,
                           !.permanent = [bullet_level |-> 2, max_lives |-> 8]]

EnemyAt(x, y, hp) ==
    [pos |-> <<x, y>>, size |-> <<34, 28>>, vel |-> <<0, 100>>, hp |-> hp,
     shot_timer |-> 600]

PlayerBulletAt(x, y) == Bullet(<<x, y>>, <<0, -520>>, 4, 1, TRUE)

LaserAt(x, y) == Bullet(<<x, y>>, <<0, -624>>, 7, 3, TRUE)

EnemyBulletAt(x, y) == Bullet(<<x, y>>, <<0, 280>>, 4, 1, FALSE)

TreasureAt(x, y, kind) == [pos |-> <<x, y>>, vel |-> <<0, 100>>, kind |-> kind, radius |-> 12]

\* Two enemies side by side with overlapping rectangles, with one about to
\* leave by the bottom and one about to ram the player; or with a third
\* below them.
SceneEnemies ==
    { <<EnemyAt(230, 300, 1), EnemyAt(250, 300, 2), EnemyAt(100, 745, 1),
        EnemyAt(240, 610, 2)>>,
      <<EnemyAt(250, 300, 2), EnemyAt(230, 300, 1), EnemyAt(240, 320, 2)>> }

SceneBullets ==
    { <<PlayerBulletAt(262, 398), LaserAt(240, 424), PlayerBulletAt(240, 398)>>,
      <<EnemyBulletAt(240, 608), EnemyBulletAt(250, 608), EnemyBulletAt(240, 524),
        EnemyBulletAt(240, 356)>> }

SceneTreasures ==
    { <<>>,
      <<TreasureAt(240, 640, "BulletUpgradePermanent"), TreasureAt(250, 630, "LifePlus"),
        TreasureAt(192, 550, "InvincibleTimed")>> }

InitStep ==
    /\ overworld = NoOverworld
    /\ profile = StepProfile
    /\ fs = [EmptyDir EXCEPT !["profile"] = Whole(ProfileJson(profile))]
    /\ \E es \in SceneEnemies, bs \in SceneBullets, ts \in SceneTreasures, lives \in {1, 2} :
         \* the last life is looked at under enemy fire, with no enemy in reach
         \* and nothing to pick up
         /\ lives = 1 => (~bs[1].from_player /\ Len(es) = 3 /\ ts = <<>>)
         /\ game = [NewGame(profile) EXCEPT !.enemies = es, !.bullets = bs, !.treasures = ts,
                                            !.player.lives = lives]
    /\ now = 0
    /\ sv = NoSave /\ loaded = NoLoad /\ pc = "loop"
    /\ leaderboard = DefaultLeaderboard
    /\ mode = "Playing" /\ name_input = NoNameInput
    /\ last = Did("init")

UpdatePlayingCall ==
    /\ now < MaxStepFrames * FrameTime
    /\ \E in \in StepInputs :
         \E r \in update_playing(fs, profile, leaderboard, game, in, now + in.dt) :
           /\ now' = now + in.dt
           /\ fs' = r.fs
           /\ profile' = r.profile
           /\ leaderboard' = r.leaderboard
           /\ game' = r.game
           /\ last' = [op |-> "update_playing", result |-> r.result, frame |-> r.frame]
    /\ UNCHANGED <<overworld, sv, loaded, pc, mode, name_input>>

NextStep == UpdatePlayingCall

SpecStep == InitStep /\ [][NextStep]_vars

(***************************************************************************)
(* main's loop: one action for each arm of `match mode`, each a whole      *)
(* iteration: the Escape block, the arm, and next_frame().await, where the *)
(* clock moves on by the frame time the next reads of get_time() see.      *)
(***************************************************************************)

\* char::is_control, for the characters typed here
IsControl(ch) == ch \in {"\t", "\n", "\r"}

\* if input.buffer.chars().count() >= 12 { continue; }
NameCap == 12

RECURSIVE Typed(_, _)
Typed(buffer, chars) ==
    IF chars = <<>> THEN buffer
    ELSE Typed(IF IsControl(Head(chars)) \/ Len(buffer) >= NameCap
               THEN buffer ELSE Append(buffer, Head(chars)),
               Tail(chars))

\* String::pop
Pop(buffer) == IF buffer = <<>> THEN buffer ELSE SubSeq(buffer, 1, Len(buffer) - 1)

\* update_name_input without the test for an empty name
update_name_input_EmptyAllowed(input, in, t) ==
    LET typed == Typed(input.buffer, in.chars)
        buffer == IF "Backspace" \in in.pressed THEN Pop(typed) ELSE typed
        edited == [input EXCEPT !.buffer = buffer]
    IN  IF "Enter" \in in.pressed
        THEN [input |-> edited, name |-> Some(Trim(buffer))]
        ELSE [input |-> edited, name |-> None]

\* update_name_input: the input it leaves and the name it returns
update_name_input(input, in, t) ==
    LET typed == Typed(input.buffer, in.chars)
        buffer == IF "Backspace" \in in.pressed THEN Pop(typed) ELSE typed
        edited == [input EXCEPT !.buffer = buffer]
    IN  IF "Enter" \in in.pressed
        THEN IF Trim(buffer) = <<>>
             THEN [input |-> [edited EXCEPT !.error = SomeError("empty", t + 1200)],
                   name |-> None]
             ELSE [input |-> edited, name |-> Some(Trim(buffer))]
        ELSE [input |-> edited, name |-> None]

\* The loop without its Escape block
Dispatched_NoEscape(m, in) == m

\* An Escape block that cancels out of every mode
Dispatched_AnyMode(m, in) == IF "Escape" \in in.pressed THEN "Menu" ELSE m

\* The Escape block at the head of the loop: the mode the match dispatches on.
Dispatched(m, in) ==
    IF "Escape" \in in.pressed /\ m \in {"Leaderboard", "Playing", "Paused", "GameOver"}
    THEN "Menu"
    ELSE m

Leaves(m, in) == "Escape" \in in.pressed /\ m = "Menu"

\* The Playing arm that never takes the pause key
PauseRequested_Never(in) == FALSE

\* if is_key_pressed(KeyCode::P) in the Playing arm
PauseRequested(in) == "P" \in in.pressed

NoFrame == [picked |-> <<>>, damaged |-> FALSE, run_end |-> FALSE, recorded |-> FALSE]

\* Frames of one process under SpecLoop.
MaxLoopFrames == 6

\* What the frame did, for the properties below.
Framed(entered, in, ran, result, frame) ==
    [op |-> "frame", entered |-> entered, dispatched |-> Dispatched(entered, in),
     pause_key |-> "P" \in in.pressed, pressed |-> in.pressed, chars |-> in.chars,
     ran |-> ran, result |-> result, frame |-> frame]

\* A frame begins: the loop is running, the window is open, and the mode
\* the match sees is `arm`.
Begins(arm, in) ==
    /\ pc = "loop"
    /\ now < MaxLoopFrames * FrameTime
    /\ ~Leaves(mode, in)
    /\ Dispatched(mode, in) = arm

Exit(Ins) ==
    \E in \in Ins :
      /\ pc = "loop"
      /\ Leaves(mode, in)
      /\ pc' = "exited"
      /\ last' = Did("exit")
      /\ UNCHANGED <<overworld, fs, sv, loaded, profile, leaderboard, mode, name_input, game, now>>

EnterNameFrame(Ins) ==
    \E in \in Ins :
      /\ Begins("EnterName", in)
      /\ now' = now + in.dt
      /\ LET u == update_name_input(name_input, in, now')
         IN  IF u.name.some
             THEN \E o \in save_profile(fs, [profile EXCEPT !.username = u.name.val]) :
                    /\ profile' = [profile EXCEPT !.username = u.name.val]
                    /\ fs' = o.fs
                    /\ IF o.ok
                       THEN /\ game' = NewGame(profile')
                            /\ mode' = "Menu"
                            /\ name_input' = u.input
                       ELSE /\ name_input' = [u.input EXCEPT
                                                !.error = SomeError("save failed", now' + 2000)]
                            /\ UNCHANGED <<game, mode>>
             ELSE /\ name_input' = u.input
                  /\ UNCHANGED <<fs, profile, game, mode>>
      /\ last' = Framed(mode, in, FALSE, "none", NoFrame)
      /\ UNCHANGED <<overworld, sv, loaded, pc, leaderboard>>

MenuFrame(Ins) ==
    \E in \in Ins :
      /\ Begins("Menu", in)
      /\ now' = now + in.dt
      /\ IF "Enter" \in in.pressed
         THEN game' = NewGame(profile) /\ mode' = "Playing"
         ELSE IF "L" \in in.pressed
         THEN mode' = "Leaderboard" /\ UNCHANGED game
         ELSE mode' = "Menu" /\ UNCHANGED game
      /\ last' = Framed(mode, in, FALSE, "none", NoFrame)
      /\ UNCHANGED <<overworld, fs, sv, loaded, pc, profile, leaderboard, name_input>>

LeaderboardFrame(Ins) ==
    \E in \in Ins :
      /\ Begins("Leaderboard", in)
      /\ now' = now + in.dt
      /\ last' = Framed(mode, in, FALSE, "none", NoFrame)
      /\ UNCHANGED <<overworld, fs, sv, loaded, pc, profile, leaderboard, mode, name_input, game>>

PlayingFrame(Ins) ==
    \E in \in Ins :
      /\ Begins("Playing", in)
      /\ now' = now + in.dt
      /\ IF PauseRequested(in)
         THEN /\ mode' = "Paused"
              /\ last' = Framed(mode, in, FALSE, "none", NoFrame)
              /\ UNCHANGED <<fs, profile, leaderboard, game>>
         ELSE \E r \in update_playing(fs, profile, leaderboard, game, in, now') :
                LET game_over == r.result # "Ok(false)"
                IN  /\ fs' = r.fs
                    /\ profile' = r.profile
                    /\ leaderboard' = r.leaderboard
                    /\ game' = IF game_over
                               THEN [r.game EXCEPT !.game_over_cooldown = 300]
                               ELSE r.game
                    /\ mode' = IF game_over THEN "GameOver" ELSE "Playing"
                    /\ last' = Framed(mode, in, TRUE, r.result, r.frame)
      /\ UNCHANGED <<overworld, sv, loaded, pc, name_input>>

PausedFrame(Ins) ==
    \E in \in Ins :
      /\ Begins("Paused", in)
      /\ now' = now + in.dt
      /\ mode' = IF "P" \in in.pressed \/ "Enter" \in in.pressed THEN "Playing"
                 ELSE IF "M" \in in.pressed THEN "Menu"
                 ELSE "Paused"
      /\ last' = Framed(mode, in, FALSE, "none", NoFrame)
      /\ UNCHANGED <<overworld, fs, sv, loaded, pc, profile, leaderboard, name_input, game>>

\* The GameOver arm without its cooldown gate
CooledDown_Always(cooldown) == TRUE

\* if game.game_over_cooldown <= 0.0
CooledDown(cooldown) == cooldown <= 0

GameOverFrame(Ins) ==
    \E in \in Ins :
      /\ Begins("GameOver", in)
      /\ now' = now + in.dt
      /\ LET cooldown == Max(game.game_over_cooldown - in.dt, 0)
         IN  IF CooledDown(cooldown) /\ "Enter" \in in.pressed
             THEN game' = NewGame(profile) /\ mode' = "Playing"
             ELSE /\ game' = [game EXCEPT !.game_over_cooldown = cooldown]
                  /\ mode' = IF CooledDown(cooldown) /\ "M" \in in.pressed
                             THEN "Menu" ELSE "GameOver"
      /\ last' = Framed(mode, in, FALSE, "none", NoFrame)
      /\ UNCHANGED <<overworld, fs, sv, loaded, pc, profile, leaderboard, name_input>>

(***************************************************************************)
(* SpecLoop: the program from its start, and from a run under way.         *)
(***************************************************************************)

Keys(pressed, down) == Input(pressed, down, FrameTime, 50)

Chars(chars, pressed) == [Keys(pressed, {}) EXCEPT !.chars = chars]

LoopInputs ==
    { Keys({}, {}), Keys({}, {"Space", "Left"}),
      Keys({"Enter"}, {}), Keys({"P"}, {}), Keys({"M"}, {}), Keys({"L"}, {}),
      Keys({"Escape"}, {}), Keys({"Escape", "Enter"}, {}), Keys({"Escape", "L"}, {}),
      Keys({"P", "Enter"}, {}),
      Chars(<<"a">>, {}), Chars(<<" ", "\t">>, {"Backspace"}),
      Chars([i \in 1..NameCap + 1 |-> "x"], {"Enter"}),
      Chars(<<" ", "b">>, {"Enter"}) }

\* Runs under way when the model starts to look: the last life with enemy
\* fire on its way, and a fight with a treasure within reach.
LoopRuns ==
    { [NewGame(StepProfile) EXCEPT
          !.player.lives = 1,
          !.bullets = <<EnemyBulletAt(240, 608), PlayerBulletAt(240, 398)>>,
          !.enemies = <<EnemyAt(230, 300, 1), EnemyAt(250, 300, 2)>>],
      [NewGame(StepProfile) EXCEPT
          !.score = 30,
          !.player.temp_mode = TempMode("Laser", 450),
          !.bullets = <<LaserAt(240, 424)>>,
          !.enemies = <<EnemyAt(250, 300, 2)>>,
          !.treasures = <<TreasureAt(240, 640, "BulletUpgradePermanent"),
                          TreasureAt(250, 630, "LifePlus")>>] }

InitLoop ==
    /\ overworld = NoOverworld
    /\ sv = NoSave /\ loaded = NoLoad
    /\ leaderboard = DefaultLeaderboard
    /\ name_input = NoNameInput
    /\ now = 0
    /\ last = Did("init")
    /\ \/ /\ pc = "boot"
          /\ fs \in {EmptyDir, [EmptyDir EXCEPT !["profile"] = Whole(ProfileJson(StepProfile))]}
          /\ profile = DefaultProfile
          /\ mode = "EnterName"
          /\ game = NewGame(DefaultProfile)
       \/ /\ pc = "loop"
          /\ fs = [EmptyDir EXCEPT !["profile"] = Whole(ProfileJson(StepProfile))]
          /\ profile = StepProfile
          /\ mode = "Playing"
          /\ game \in LoopRuns

NextLoop ==
    \/ Startup
    \/ EnterNameFrame(LoopInputs)
    \/ MenuFrame(LoopInputs)
    \/ LeaderboardFrame(LoopInputs)
    \/ PlayingFrame(LoopInputs)
    \/ PausedFrame(LoopInputs)
    \/ GameOverFrame(LoopInputs)
    \/ Exit(LoopInputs)

SpecLoop == InitLoop /\ [][NextLoop]_vars

(***************************************************************************)
(* SpecDrop: maybe_drop_treasure on a run's treasures, one roll a call.    *)
(***************************************************************************)

MaxDrops == 2

\* rand::gen_range(0, 100)
DropRolls == 0..99

\* The outcome of a roll: "none" or the kind of the treasure pushed
DropOutcome(roll) ==
    LET d == Dropped(<<240, 300>>, [roll |-> roll, speed |-> 90])
    IN  IF d = <<>> THEN "none" ELSE d[1].kind

\* The roll values with one outcome
Band(k) == {roll \in DropRolls : DropOutcome(roll) = k}

InitDrop ==
    /\ overworld = NoOverworld
    /\ game = NewGame(StepProfile)
    /\ last = [op |-> "init"]
    /\ fs = EmptyDir /\ sv = NoSave /\ loaded = NoLoad /\ pc = "loop"
    /\ profile = StepProfile /\ leaderboard = <<>>
    /\ mode = "Playing" /\ name_input = NoNameInput
    /\ now = 0

MaybeDropTreasureCall ==
    /\ Len(game.treasures) < MaxDrops
    /\ \E roll \in DropRolls, at \in {<<240, 300>>} :
        LET d == Dropped(at, [roll |-> roll, speed |-> 90])
        IN  /\ game' = [game EXCEPT !.treasures = @ \o d]
            /\ last' = [op |-> "maybe_drop_treasure", roll |-> roll, dropped |-> d,
                        before |-> game.treasures]
    /\ UNCHANGED <<overworld, fs, sv, loaded, pc, profile, leaderboard, mode, name_input, now>>

NextDrop == MaybeDropTreasureCall

SpecDrop == InitDrop /\ [][NextDrop]_vars

(***************************************************************************)
(* SpecSpawn: the spawn block of update_playing, frame after frame, on a   *)
(* Game as Game::new leaves it.                                            *)
(***************************************************************************)

MaxSpawns == 180

\* Frame times: the usual one, and one longer than twice the first interval
SpawnFrameTimes == {FrameTime, 1800}

InitSpawn ==
    /\ overworld = NoOverworld
    /\ game = NewGame(StepProfile)
    /\ last = [op |-> "init"]
    /\ fs = EmptyDir /\ sv = NoSave /\ loaded = NoLoad /\ pc = "loop"
    /\ profile = StepProfile /\ leaderboard = <<>>
    /\ mode = "Playing" /\ name_input = NoNameInput
    /\ now = 0

SpawnFrame ==
    /\ Len(game.enemies) < MaxSpawns
    /\ \E dt \in SpawnFrameTimes :
        /\ game' = StageSpawn(game, Input({}, {}, dt, 50))
        /\ last' = [op |-> "spawn", dt |-> dt,
                    interval |-> game.enemy_spawn_interval,
                    timer |-> game.enemy_spawn_timer,
                    enemies |-> Len(game.enemies)]
    /\ UNCHANGED <<overworld, fs, sv, loaded, pc, profile, leaderboard, mode, name_input, now>>

NextSpawn == SpawnFrame

SpecSpawn == InitSpawn /\ [][NextSpawn]_vars

\* handle_movement along one axis (dir is <<0, 0>> or a unit step) over dt ms.
handle_movement(player, dir, dt) ==
    [player EXCEPT !.pos = << Clamp(player.pos[1] + dir[1] * Disp(player.speed, dt),
                                    12, OVERWORLD_W - 12),
                              Clamp(player.pos[2] + dir[2] * Disp(player.speed, dt),
                                    12, OVERWORLD_H - 12) >>]

(***************************************************************************)
(* SpecWorld: app::run's loop, frame by frame, on every world of MapFiles. *)
(***************************************************************************)

MaxWorldFrames == 9

WorldFrameTime == 1000

Directions == { <<0, 0>>, <<1, 0>>, <<-1, 0>>, <<0, 1>>, <<0, -1>> }

InitWorld ==
    /\ \E file \in MapFiles :
         overworld = [world  |-> WorldOf(file),
                      player |-> PlayerNew(current_spawn(WorldOf(file)))]
    /\ last = [op |-> "init"]
    /\ now = 0
    /\ fs = EmptyDir /\ sv = NoSave /\ loaded = NoLoad /\ pc = "loop"
    /\ profile = DefaultProfile /\ leaderboard = DefaultLeaderboard
    /\ mode = "Playing" /\ name_input = NoNameInput
    /\ game = NewGame(DefaultProfile)

\* One frame of app::run: handle_movement, then handle_interaction.
WorldFrame ==
    /\ now < MaxWorldFrames * WorldFrameTime
    /\ \E dir \in Directions, e \in BOOLEAN :
         LET moved == [overworld EXCEPT !.player = handle_movement(@, dir, WorldFrameTime)]
         IN  /\ overworld' = handle_interaction(moved, e)
             /\ last' = [op |-> "handle_interaction", e |-> e,
                         before |-> [current |-> moved.world.current,
                                     pos |-> moved.player.pos],
                         teleport |-> IF e THEN try_teleport(moved.world, moved.player.pos)
                                      ELSE NoTeleport]
    /\ now' = now + WorldFrameTime
    /\ UNCHANGED <<fs, sv, loaded, pc, profile, leaderboard, mode, name_input, game>>

NextWorld == WorldFrame

SpecWorld == InitWorld /\ [][NextWorld]_vars

(***************************************************************************)
(* The store's claims, under SpecSave.                                     *)
(***************************************************************************)

\* C1 (as claimed): while a save is in flight, and after the process stopped
\* inside it, the target file holds the whole previous content or the whole
\* new content: it is never partial and, when it existed, never missing.
C1_CrashAtomic ==
    sv.result \in {"running", "Crashed"} =>
        \/ fs[sv.path] = sv.old
        \/ fs[sv.path] = Whole(sv.doc)

\* C7: a save that returned Ok, followed by the loads of the next process
\* start, gives back the saved profile field for field, or the saved
\* leaderboard entry for entry in the same order.
C7_RoundTrip ==
    (last.op = "startup" /\ sv.result = "Ok") =>
        IF sv.path = "profile"
        THEN /\ loaded.profile.tag = "Ok"
             /\ loaded.profile.val.some
             /\ LET q == loaded.profile.val.val
                IN  /\ q.username = sv.profile.username
                    /\ q.plane_style = sv.profile.plane_style
                    /\ q.permanent.bullet_level = sv.profile.permanent.bullet_level
                    /\ q.permanent.max_lives = sv.profile.permanent.max_lives
        ELSE /\ loaded.leaderboard.tag = "Ok"
             /\ Len(loaded.leaderboard.val) = Len(sv.leaderboard)
             /\ \A i \in 1..Len(sv.leaderboard) :
                    /\ loaded.leaderboard.val[i].username = sv.leaderboard[i].username
                    /\ loaded.leaderboard.val[i].score = sv.leaderboard[i].score

\* C7's case: a profile whose name holds a quote and whose style has two
\* digits was saved over an existing file and read back.
C7_Witness ==
    /\ last.op = "startup" /\ sv.result = "Ok" /\ sv.path = "profile"
    /\ Exists(sv.old)
    /\ sv.profile.username = <<"a", "\"">>
    /\ sv.profile.plane_style = 12
    /\ loaded.profile.tag = "Ok"
    /\ loaded.profile.val.val = sv.profile

ProfileFileUnreadable == Exists(fs.profile) /\ ~fs.profile.readable

LeaderboardFileUnreadable == Exists(fs.leaderboard) /\ ~fs.leaderboard.readable

C3_BoundedSorted ==
    /\ Len(leaderboard) <= 20
    /\ \A i \in 1..(Len(leaderboard) - 1) : leaderboard[i].score >= leaderboard[i + 1].score

\* C3's case: a full leaderboard took a score above its lowest; the new entry
\* is in and the leaderboard still holds 20.
C3_Witness ==
    /\ last.op = "record_score"
    /\ Len(last.before) = 20
    /\ last.score > last.before[20].score
    /\ Len(leaderboard) = 20
    /\ \E i \in 1..20 : leaderboard[i] = [username |-> last.username, score |-> last.score]

\* A timed mode is unexpired until the time is past its expiry (the expiry
\* step of update_playing clears it once get_time() > until).
Unexpired(tm, t) == tm.some /\ ~(t > tm.until)

\* C5: bullet_mode is the timed mode's pattern while that is set and
\* unexpired, whatever the manual mode and the level; else the manual mode
\* when one is set; else Normal, Double, Triple for levels 1, 2, 3.
C5_BulletModeRule ==
    last.op = "bullet_mode" =>
        LET pl == game.player
        IN  /\ Unexpired(pl.temp_mode, now) => last.result = pl.temp_mode.mode
            /\ (~Unexpired(pl.temp_mode, now) /\ pl.manual_mode # "None") =>
                   last.result = pl.manual_mode
            /\ (~Unexpired(pl.temp_mode, now) /\ pl.manual_mode = "None") =>
                   /\ pl.base_bullet_level = 1 => last.result = "Normal"
                   /\ pl.base_bullet_level = 2 => last.result = "Double"
                   /\ pl.base_bullet_level = 3 => last.result = "Triple"

\* C5's case: asked at the very expiry time of a timed Laser, with a manual
\* Double and level 3, the player answers Laser.
C5_Witness ==
    /\ last.op = "bullet_mode"
    /\ game.player.temp_mode = TempMode("Laser", now)
    /\ game.player.manual_mode = "Double"
    /\ game.player.base_bullet_level = 3
    /\ last.result = "Laser"

(***************************************************************************)
(* The progression's claims, under SpecTreasure.                           *)
(***************************************************************************)

C9_FailedSaveKeepsStored ==
    (last.op = "apply_treasure" /\ last.kind \in PermanentKinds /\ ~last.ok)
    => /\ last.kind = "BulletUpgradePermanent" =>
            /\ profile.permanent.bullet_level
                 = Min(last.before.profile.permanent.bullet_level + 1, 3)
            /\ game.player.base_bullet_level = profile.permanent.bullet_level
       /\ last.kind = "MaxLifePermanent" =>
            /\ profile.permanent.max_lives
                 = Min(last.before.profile.permanent.max_lives + 1, 9)
            /\ game.player.max_lives = profile.permanent.max_lives
            /\ game.player.lives
                 = Min(last.before.player.lives + 1, profile.permanent.max_lives)
       /\ fs["profile"] = last.before.file

\* C9 without its last part: the error is returned and memory is ahead.
C9_ErrorWithMemoryAhead ==
    (last.op = "apply_treasure" /\ last.kind \in PermanentKinds /\ ~last.ok)
    => /\ last.kind = "BulletUpgradePermanent" =>
            /\ profile.permanent.bullet_level
                 = Min(last.before.profile.permanent.bullet_level + 1, 3)
            /\ game.player.base_bullet_level = profile.permanent.bullet_level
       /\ last.kind = "MaxLifePermanent" =>
            /\ profile.permanent.max_lives
                 = Min(last.before.profile.permanent.max_lives + 1, 9)
            /\ game.player.max_lives = profile.permanent.max_lives
            /\ game.player.lives
                 = Min(last.before.player.lives + 1, profile.permanent.max_lives)

(***************************************************************************)
(* The step's claims, under SpecStep.                                      *)
(***************************************************************************)

\* The enemies whose rectangle bullet bi touches in the collision pass.
C6_Touched(fr, bi) ==
    {ei \in 1..Len(fr.enemies) :
        circle_hits_rect(fr.bullets[bi].pos, fr.bullets[bi].radius,
                         RectAt(fr.enemies[ei].pos, fr.enemies[ei].size))}

C6_First(fr, bi) == CHOOSE ei \in C6_Touched(fr, bi) : \A ej \in C6_Touched(fr, bi) : ei <= ej

\* The damage the player's bullets from bi on owe enemy ei: each bullet pays
\* the first enemy it touches and no other.
RECURSIVE C6_Owed(_, _, _)
C6_Owed(fr, ei, bi) ==
    IF bi > Len(fr.bullets) THEN 0
    ELSE (IF /\ fr.bullets[bi].from_player
             /\ C6_Touched(fr, bi) # {}
             /\ C6_First(fr, bi) = ei
          THEN fr.bullets[bi].damage ELSE 0) + C6_Owed(fr, ei, bi + 1)

\* C6: in one update_playing a player bullet lowers the hit points of at most
\* one enemy, the first in collection order whose rectangle it touches; that
\* bullet is consumed and is not among game.bullets after the frame.
C6_OneEnemyPerBullet ==
    last.op = "update_playing" =>
      LET fr == last.frame
      IN  /\ \A bi \in 1..Len(fr.bullets) :
                fr.bullets[bi].from_player =>
                  /\ Cardinality(fr.struck[bi]) <= 1
                  /\ C6_Touched(fr, bi) = {} => fr.struck[bi] = {}
                  /\ C6_Touched(fr, bi) # {} =>
                        /\ fr.struck[bi] = {C6_First(fr, bi)}
                        /\ bi \in fr.spent
                        /\ bi \notin fr.remaining
          /\ \A ei \in 1..Len(fr.enemies) :
                fr.hit_points[ei] = fr.enemies[ei].hp - C6_Owed(fr, ei, 1)
          /\ Len(game.bullets) = Cardinality(fr.remaining)

\* C6's case: a player bullet touching two enemies at once.
C6_Witness ==
    /\ last.op = "update_playing"
    /\ \E bi \in 1..Len(last.frame.bullets) :
         /\ last.frame.bullets[bi].from_player
         /\ Cardinality(C6_Touched(last.frame, bi)) >= 2
         /\ bi \in last.frame.spent

\* C4: however often the run-end branch runs for one Game and whatever
\* save_leaderboard returned, the leaderboard in memory gets at most one
\* entry for the run.  The one run of SpecStep starts from the empty board.
C4_OneEntryPerRun == Len(leaderboard) <= Len(DefaultLeaderboard) + 1

\* C4 after a save that succeeded: once just_saved_score is set, no later
\* execution of update_playing on that Game touches the leaderboard.
C4_FlagGuards == [][game.just_saved_score => leaderboard' = leaderboard]_vars

(***************************************************************************)
(* The loop's claims, under SpecLoop.                                      *)
(***************************************************************************)

\* C10: update_playing runs in a frame only if the mode the frame is
\* dispatched on is Playing and the pause key is not pressed in it; a frame
\* dispatched on Paused changes no field of the Game, nor the profile, nor
\* the leaderboard.
C10_PausedFreezes ==
    [][ last'.op = "frame" =>
          /\ last'.ran => (last'.dispatched = "Playing" /\ ~last'.pause_key)
          /\ last'.dispatched = "Paused" =>
                (game' = game /\ profile' = profile /\ leaderboard' = leaderboard) ]_vars

\* C10's case: a frame spent in Paused with a run's bullets and enemies in
\* flight.
C10_Witness ==
    /\ last.op = "frame" /\ last.entered = "Paused" /\ last.dispatched = "Paused"
    /\ game.bullets # <<>> /\ game.enemies # <<>>

(***************************************************************************)
(* The run's end, under SpecStep.                                          *)
(***************************************************************************)

C11_Restored(fr) ==
    \E i \in 1..Len(fr.picked) : fr.picked[i] \in {"LifePlus", "MaxLifePermanent"}

\* lb1 is lb with the one entry e put in somewhere.
C11_OneMore(lb, lb1, e) ==
    /\ Len(lb1) = Len(lb) + 1
    /\ \E i \in 1..Len(lb1) :
         /\ lb1[i] = e
         /\ lb = SubSeq(lb1, 1, i - 1) \o SubSeq(lb1, i + 1, Len(lb1))

C12_Left == Max(game.game_over_cooldown - FrameTime, 0)

\* C12 as the code has it: a frame dispatched on GameOver leaves GameOver
\* (Enter to Playing, M to Menu) only if the cooldown, after this frame's
\* time is taken off, is no longer positive; while it is positive the frame
\* only lowers the cooldown.  Escape is not gated: see C12_NoLeaveWhileCooling.
C12_ArmGated ==
    [][ (last'.op = "frame" /\ last'.dispatched = "GameOver") =>
          /\ mode' # "GameOver" => C12_Left <= 0
          /\ C12_Left > 0 =>
                (mode' = "GameOver" /\ game' = [game EXCEPT !.game_over_cooldown = C12_Left]) ]_vars

\* C12's case: Enter or M pressed in GameOver while the cooldown runs, and
\* the mode is still GameOver.
C12_Witness ==
    /\ last.op = "frame" /\ last.entered = "GameOver" /\ last.dispatched = "GameOver"
    /\ last.pressed \cap {"Enter", "M"} # {}
    /\ game.game_over_cooldown > 0
    /\ mode = "GameOver"

\* C12 as stated: no step from GameOver to Playing or to Menu while the
\* cooldown is still positive.
C12_NoLeaveWhileCooling ==
    [][ (pc = "loop" /\ mode = "GameOver" /\ mode' \in {"Playing", "Menu"})
          => C12_Left <= 0 ]_vars

C13_Returning == {"Leaderboard", "Playing", "Paused", "GameOver"}

\* C13: Escape pressed in Leaderboard, Playing, Paused or GameOver sets the
\* mode to Menu (the Menu arm then runs in that frame, and the simulation
\* does not); pressed in Menu it ends the loop; pressed in EnterName it
\* changes nothing: the EnterName arm runs and the loop goes on.
C13_Cancel ==
    [][ /\ (last'.op = "frame" /\ "Escape" \in last'.pressed
              /\ last'.entered \in C13_Returning) =>
              /\ last'.dispatched = "Menu"
              /\ ~last'.ran
              /\ pc' = "loop"
              /\ mode' = IF "Enter" \in last'.pressed THEN "Playing"
                         ELSE IF "L" \in last'.pressed THEN "Leaderboard"
                         ELSE "Menu"
        /\ (last'.op = "frame" /\ "Escape" \in last'.pressed
              /\ last'.entered = "EnterName") =>
              /\ last'.dispatched = "EnterName"
              /\ pc' = "loop"
              /\ (last'.pressed = {"Escape"} /\ last'.chars = <<>>) =>
                    /\ mode' = "EnterName"
                    /\ name_input' = name_input
                    /\ UNCHANGED <<profile, game, fs, leaderboard>>
        /\ (pc = "loop" /\ mode = "Menu" /\ last'.op = "frame") => "Escape" \notin last'.pressed
        /\ last'.op = "exit" => (mode = "Menu" /\ pc = "loop" /\ pc' = "exited") ]_vars

\* C13's case: Escape in GameOver, with the cooldown still running, has
\* brought the mode to Menu.
C13_Witness ==
    /\ last.op = "frame" /\ last.entered = "GameOver" /\ last.pressed = {"Escape"}
    /\ game.game_over_cooldown > 0
    /\ mode = "Menu"

(***************************************************************************)
(* More of the progression, under SpecTreasure.                            *)
(***************************************************************************)

C15_LivesWithinMax == game.player.lives <= game.player.max_lives

\* C15's case: a life picked up by a player already at full lives.
C15_Witness ==
    /\ last.op = "frame" /\ last.ran
    /\ \E i \in 1..Len(last.frame.picked) : last.frame.picked[i] = "LifePlus"
    /\ ~last.frame.damaged
    /\ game.player.lives = game.player.max_lives

(***************************************************************************)
(* The write-back, under SpecLoop.                                         *)
(***************************************************************************)

C16_PickedPermanent ==
    \E i \in 1..Len(last.frame.picked) : last.frame.picked[i] \in PermanentKinds

\* C16 as the code has it: when update_playing returns without error from a
\* frame with a permanent pickup, the stored profile reads back as the
\* profile in memory.
C16_SavedWhenPickedUp ==
    (last.op = "frame" /\ last.ran /\ last.result # "Err" /\ C16_PickedPermanent)
    => load_profile(fs) = Ok(Some(profile))

\* C16's case: a permanent upgrade picked up and saved within the frame.
C16_Witness ==
    /\ last.op = "frame" /\ last.ran /\ last.result = "Ok(false)" /\ C16_PickedPermanent
    /\ profile.permanent.bullet_level = StepProfile.permanent.bullet_level + 1
    /\ load_profile(fs) = Ok(Some(profile))

\* C16 as stated: at the end of every update_playing that returns without
\* error the stored profile equals the profile in memory.
C16_StoredEqualsMemory ==
    (last.op = "frame" /\ last.ran /\ last.result # "Err")
    => load_profile(fs) = Ok(Some(profile))

(***************************************************************************)
(* The drop table, under SpecDrop.                                         *)
(***************************************************************************)

C17_Pushed == IF last.dropped = <<>> THEN "none" ELSE last.dropped[1].kind

\* C17, the part the code has: every roll 0..99 pushes nothing or one
\* treasure of one kind, each outcome's rolls form one unbroken band (it has
\* one last roll), and
\* 'no drop' takes more than half of the rolls.
C17_DisjointBands ==
    last.op = "maybe_drop_treasure" =>
        /\ Len(last.dropped) <= 1
        /\ game.treasures = last.before \o last.dropped
        /\ C17_Pushed \in TreasureKinds \cup {"none"}
        /\ Cardinality({r \in DropRolls : /\ DropOutcome(r) = C17_Pushed
                                          /\ (r + 1 \in DropRolls => DropOutcome(r + 1) # C17_Pushed)}) = 1
        /\ 2 * Cardinality(Band("none")) > Cardinality(DropRolls)

\* C17 as stated, last part: a non-permanent kind that is dropped is
\* selected by no fewer roll values than either permanent kind.
C17_PermanentsRarest ==
    (last.op = "maybe_drop_treasure" /\ C17_Pushed \in TreasureKinds \ PermanentKinds) =>
        \A p \in PermanentKinds : Cardinality(Band(C17_Pushed)) >= Cardinality(Band(p))

(***************************************************************************)
(* The timed fire pickups, under SpecTreasure.                             *)
(***************************************************************************)

C18_Applies(kind) == now' = now /\ last'.op = "apply_treasure" /\ last'.kind = kind

\* C18: apply_treasure with SpreadTimed leaves temp_mode = (Spread, now + 9 s)
\* and with LaserTimed (Laser, now + 6 s), whatever temp_mode held before,
\* and bullet_mode then resolves to the pattern just picked up.
C18_TimedFireReplaces ==
    [][ /\ C18_Applies("SpreadTimed") =>
            /\ game'.player.temp_mode = TempMode("Spread", now + 9000)
            /\ bullet_mode(game'.player, now) = "Spread"
        /\ C18_Applies("LaserTimed") =>
            /\ game'.player.temp_mode = TempMode("Laser", now + 6000)
            /\ bullet_mode(game'.player, now) = "Laser" ]_vars

\* C18's case: Laser picked up while Spread still had longer to run than
\* Laser's whole duration.
C18_Witness ==
    /\ last.op = "apply_treasure" /\ last.kind = "LaserTimed"
    /\ last.before.player.temp_mode.some
    /\ last.before.player.temp_mode.mode = "Spread"
    /\ last.before.player.temp_mode.until > game.player.temp_mode.until
    /\ bullet_mode(last.before.player, now) = "Spread"
    /\ game.player.temp_mode.mode = "Laser"
    /\ bullet_mode(game.player, now) = "Laser"

(***************************************************************************)
(* The name screen, under SpecLoop.                                        *)
(***************************************************************************)

\* C19: once the loop runs, the mode leaves EnterName only in a frame where
\* Enter submitted a buffer that is non-empty after trimming and
\* save_profile succeeded: the stored profile then reads back with that
\* name and the mode is Menu.  A frame that raised the empty-name error or
\* the save error stays in EnterName, and no step enters EnterName from
\* another mode.
C19_LeavesBySavedName ==
    [][ pc = "loop" =>
        /\ (mode = "EnterName" /\ mode' # "EnterName") =>
              /\ mode' = "Menu"
              /\ last'.op = "frame" /\ "Enter" \in last'.pressed
              /\ Trim(name_input'.buffer) # <<>>
              /\ profile'.username = Trim(name_input'.buffer)
              /\ load_profile(fs') = Ok(Some(profile'))
        /\ (/\ mode = "EnterName"
            /\ name_input'.error \in {SomeError("empty", now' + 1200),
                                      SomeError("save failed", now' + 2000)}) =>
              mode' = "EnterName"
        /\ (mode # "EnterName" => mode' # "EnterName") ]_vars

\* C19's case: a name typed with a leading blank, submitted and saved.
C19_Witness ==
    /\ last.op = "frame" /\ last.entered = "EnterName" /\ mode = "Menu"
    /\ name_input.buffer = <<" ", "b">>
    /\ profile.username = <<"b">>
    /\ load_profile(fs) = Ok(Some(profile))

(***************************************************************************)
(* Starting and restarting a run, under SpecLoop.                          *)
(***************************************************************************)

C20_Fresh(g, p) ==
    /\ g.score = 0
    /\ g.player.lives = g.player.max_lives
    /\ g.player.max_lives = Max(p.permanent.max_lives, 1)
    /\ g.player.base_bullet_level = Min(Max(p.permanent.bullet_level, 1), 3)
    /\ g.player.manual_mode = "None"
    /\ g.player.temp_mode = NoTempMode
    /\ g.bullets = <<>> /\ g.enemies = <<>> /\ g.treasures = <<>> /\ g.particles = <<>>
    /\ ~g.just_saved_score

\* C20: a frame that enters Playing from Menu or from GameOver (or from any
\* mode but Paused) leaves a Game as Game::new builds it from the profile in
\* memory; the only frames that enter Playing with the Game they found are
\* those of the Paused arm, and a frame that goes from Paused through the
\* Escape block's Menu also starts afresh.
C20_FreshOnEntry ==
    [][ pc = "loop" =>
        /\ (mode \in {"Menu", "GameOver", "Leaderboard"} /\ mode' = "Playing") =>
              C20_Fresh(game', profile')
        /\ (mode = "Paused" /\ mode' = "Playing") =>
              IF last'.dispatched = "Paused" THEN game' = game
              ELSE C20_Fresh(game', profile') ]_vars

\* C20's case: a restart from GameOver after a run that raised the
\* profile's bullet level.
C20_Witness ==
    /\ last.op = "frame" /\ last.entered = "GameOver" /\ last.dispatched = "GameOver"
    /\ mode = "Playing"
    /\ profile.permanent.bullet_level = StepProfile.permanent.bullet_level + 1
    /\ game.player.base_bullet_level = profile.permanent.bullet_level
    /\ game.player.lives = profile.permanent.max_lives
    /\ game.score = 0

(***************************************************************************)
(* The damage block, under SpecStep.                                       *)
(***************************************************************************)

\* The frame got as far as the damage block: it returned Ok, or the error
\* came from the run-end branch inside the block.
C21_ReachedDamage == last.result # "Err" \/ last.frame.run_end

\* The enemy bullets that hit the player in the frame
C21_HitBy == {bi \in last.frame.spent : ~last.frame.bullets[bi].from_player}

\* C21: in a frame that reaches the damage block, if the player was hit and
\* the clock is not before invincible_until as the pickups left it, lives
\* are one less than before the block and invincible_until is now + 0.9 s;
\* otherwise the block changes neither, however many hits there were.
C21_OneLifePerFrame ==
    (last.op = "update_playing" /\ C21_ReachedDamage) =>
        LET b == last.frame.before_damage
        IN  IF last.frame.player_hit /\ ~(now < b.invincible_until)
            THEN /\ game.player.lives = b.lives - 1
                 /\ game.player.invincible_until = now + 900
            ELSE /\ game.player.lives = b.lives
                 /\ game.player.invincible_until = b.invincible_until

\* C21's case: two enemy bullets hit in one frame and one life is taken.
C21_Witness ==
    /\ last.op = "update_playing" /\ last.result = "Ok(false)"
    /\ Cardinality(C21_HitBy) >= 2
    /\ last.frame.player_hit
    /\ game.player.lives = last.frame.before_damage.lives - 1
    /\ game.player.invincible_until = now + 900

\* C21, the other case: hit while invincible, no life taken.
C21_WitnessInvincible ==
    /\ last.op = "update_playing" /\ last.result = "Ok(false)"
    /\ C21_HitBy # {}
    /\ now < last.frame.before_damage.invincible_until
    /\ game.player.lives = last.frame.before_damage.lives

(***************************************************************************)
(* The reward for an enemy, under SpecStep.                                *)
(***************************************************************************)

\* The player bullets that damaged enemy ei in the frame
C22_HitsOn(fr, ei) ==
    {bi \in 1..Len(fr.bullets) : fr.bullets[bi].from_player /\ fr.struck[bi] = {ei}}

C22_PastBottom(fr) == {ei \in 1..Len(fr.enemies) : fr.enemies[ei].pos[2] > SCREEN_H + 50}

C22_Rams(e) ==
    Overlaps(RectAt(e.pos, e.size), RectAt(game.player.pos, game.player.size))

\* The pickup bonus the frame added to the score: 2 a treasure, none when
\* a pickup's save failed.
C22_Bonus == IF C21_ReachedDamage THEN 2 * Len(last.frame.picked) ELSE 0

\* C22: every player bullet that hit an enemy took its damage off that
\* enemy's hit points; each enemy still on the field whose hit points ended
\* at or below 0 (or that rammed the player) is removed and rewarded once:
\* the score rises by 10 for each such enemy and by nothing else but the
\* pickup bonus, and each has one drop roll, which pushes one treasure at
\* its position when the roll is below 30 and none otherwise.
C22_RewardedOnce ==
    last.op = "update_playing" =>
      LET fr == last.frame
      IN  /\ \A ei \in 1..Len(fr.enemies) :
                fr.hit_points[ei] = fr.enemies[ei].hp - C6_Owed(fr, ei, 1)
          /\ fr.destroyed = {ei \in 1..Len(fr.enemies) \ C22_PastBottom(fr) :
                                fr.hit_points[ei] <= 0 \/ C22_Rams(fr.enemies[ei])}
          /\ Len(game.enemies) =
                Len(fr.enemies) - Cardinality(fr.destroyed) - Cardinality(C22_PastBottom(fr))
          /\ game.score = fr.score_before + 10 * Cardinality(fr.destroyed) + C22_Bonus
          /\ Len(fr.dropped) = IF fr.drop_roll < 30 THEN Cardinality(fr.destroyed) ELSE 0
          /\ \A i \in 1..Len(fr.dropped) :
                \E ei \in fr.destroyed : fr.dropped[i].pos = fr.enemies[ei].pos

\* C22's case: an enemy with 2 hit points hit by two bullets of damage 1 in
\* one frame, removed for one award of 10 and one treasure.
C22_Witness ==
    /\ last.op = "update_playing" /\ last.result = "Ok(false)"
    /\ \E ei \in last.frame.destroyed :
         /\ last.frame.enemies[ei].hp = 2
         /\ Cardinality({bi \in C22_HitsOn(last.frame, ei) :
                            last.frame.bullets[bi].damage = 1}) >= 2
         /\ last.frame.destroyed = {ei}
    /\ last.frame.picked = <<>>
    /\ game.score = last.frame.score_before + 10
    /\ Len(last.frame.dropped) = 1

(***************************************************************************)
(* The mode graph, under SpecLoop.                                         *)
(***************************************************************************)

C23_Stated ==
    { <<"EnterName", "Menu">>, <<"Menu", "Playing">>, <<"Menu", "Leaderboard">>,
      <<"Leaderboard", "Menu">>, <<"Playing", "Paused">>, <<"Paused", "Playing">>,
      <<"Playing", "GameOver">>, <<"GameOver", "Playing">>, <<"GameOver", "Menu">>,
      <<"Playing", "Menu">>, <<"Paused", "Menu">> }

\* What Escape pressed together with Enter or L adds: the Escape block sets
\* Menu and the Menu arm runs in the same frame.
C23_ThroughMenu ==
    { <<"Leaderboard", "Playing">>, <<"Playing", "Leaderboard">>,
      <<"Paused", "Leaderboard">>, <<"GameOver", "Leaderboard">> }

\* C23 as the code has it: over one frame the mode stays or changes along a
\* stated pair or, only with Escape pressed, along one of the four pairs
\* that pass through Menu within the frame; GameOver is entered only from
\* Playing.
C23_ModeGraph ==
    (last.op = "frame" /\ last.entered # mode) =>
        /\ <<last.entered, mode>> \in C23_Stated \cup C23_ThroughMenu
        /\ <<last.entered, mode>> \in C23_ThroughMenu =>
              /\ "Escape" \in last.pressed
              /\ last.dispatched = "Menu"
        /\ mode = "GameOver" => last.entered = "Playing"

\* C23's case: Escape and L in one Playing frame end in Leaderboard.
C23_Witness ==
    /\ last.op = "frame" /\ last.entered = "Playing" /\ mode = "Leaderboard"
    /\ last.pressed = {"Escape", "L"}

\* C23 as stated: the mode changes only along the eleven stated pairs, so
\* Leaderboard is entered only from Menu.
C23_StatedPairsOnly ==
    (last.op = "frame" /\ last.entered # mode) => <<last.entered, mode>> \in C23_Stated

(***************************************************************************)
(* The pickups that are not permanent, under SpecTreasure.                 *)
(***************************************************************************)

\* C24: apply_treasure with LifePlus, InvincibleTimed, SpreadTimed or
\* LaserTimed returns Ok, leaves the profile in memory as it was and changes
\* no file of the store (last.touched); with LifePlus the player differs from before
\* only in lives, which are min(lives + 1, max_lives).
C24_NoPersistence ==
    (last.op = "apply_treasure" /\ last.kind \in TreasureKinds \ PermanentKinds) =>
        /\ last.ok
        /\ profile = last.before.profile
        /\ ~last.touched
        /\ fs["profile"] = last.before.file
        /\ last.kind = "LifePlus" =>
              game.player = [last.before.player EXCEPT
                                !.lives = Min(@ + 1, last.before.player.max_lives)]

\* C24's case: a life picked up below full lives, with an upgraded profile
\* on disk.
C24_Witness ==
    /\ last.op = "apply_treasure" /\ last.kind = "LifePlus"
    /\ last.before.player.lives < last.before.player.max_lives
    /\ game.player.lives = last.before.player.lives + 1
    /\ profile.permanent.bullet_level = 3
    /\ load_profile(fs) = Ok(Some(profile))

(***************************************************************************)
(* The spawn interval, under SpecSpawn.                                    *)
(***************************************************************************)

\* C25, the parts the code has: a frame never raises the spawn interval and
\* spawns at most one enemy, also when the frame time is more than twice
\* the interval; the interval stays above 0.995 of the threshold.
C25_ShrinksOneSpawn ==
    last.op = "spawn" =>
        /\ game.enemy_spawn_interval <= last.interval
        /\ Len(game.enemies) - last.enemies \in {0, 1}
        /\ Elapsed(last.timer + last.dt, 2 * last.interval) =>
              Len(game.enemies) = last.enemies + 1
        /\ game.enemy_spawn_interval >= Shrunk(SpawnThreshold)

\* C25 as stated, middle part: the spawn interval never falls below the
\* 0.35 s the shrink step compares against.
C25_NeverBelowMinimum == game.enemy_spawn_interval >= SpawnThreshold

(***************************************************************************)
(* The enemies a frame leaves, under SpecStep.                             *)
(***************************************************************************)

\* The enemies of the frame that stay: on the field, hit points left, not
\* touching the player.
C26_Survivors(fr) ==
    {ei \in 1..Len(fr.enemies) \ C22_PastBottom(fr) :
        fr.hit_points[ei] >= 1 /\ ~C22_Rams(fr.enemies[ei])}

\* C26: after every update_playing, whatever it returned, each enemy in
\* game.enemies has at least 1 hit point and is not past the bottom; the
\* enemies left are exactly the frame's survivors, and no enemy past the
\* bottom is among the rewarded ones or has a treasure dropped for it.
C26_OnlyLiveEnemies ==
    last.op = "update_playing" =>
      LET fr == last.frame
      IN  /\ \A i \in 1..Len(game.enemies) :
                /\ game.enemies[i].hp >= 1
                /\ ~(game.enemies[i].pos[2] > SCREEN_H + 50)
          /\ Len(game.enemies) = Cardinality(C26_Survivors(fr))
          /\ \A ei \in C26_Survivors(fr) :
                \E i \in 1..Len(game.enemies) :
                    game.enemies[i] = [fr.enemies[ei] EXCEPT !.hp = fr.hit_points[ei]]
          /\ fr.destroyed \cap C22_PastBottom(fr) = {}
          /\ Len(fr.dropped) <= Cardinality(fr.destroyed)

\* C26's case: one enemy leaves by the bottom in a frame where nothing is
\* destroyed: no score, no drop, one enemy fewer.
C26_Witness ==
    /\ last.op = "update_playing"
    /\ Cardinality(C22_PastBottom(last.frame)) = 1
    /\ last.frame.destroyed = {}
    /\ last.frame.drop_roll < 30 /\ last.frame.dropped = <<>>
    /\ game.score = last.frame.score_before + C22_Bonus
    /\ Len(game.enemies) = Len(last.frame.enemies) - 1

\* C26, the ramming case: an enemy with 2 hit points touches the player and
\* is removed in that frame.
C26_WitnessRam ==
    /\ last.op = "update_playing"
    /\ \E ei \in last.frame.destroyed :
         last.frame.hit_points[ei] = 2 /\ C22_Rams(last.frame.enemies[ei])
    /\ last.frame.player_hit

(***************************************************************************)
(* Entering GameOver, under SpecLoop.                                      *)
(***************************************************************************)

C27_EntersGameOver == last.op = "frame" /\ last.entered = "Playing" /\ mode = "GameOver"

C27_OnBoard ==
    \E i \in 1..Len(leaderboard) :
        leaderboard[i] = [username |-> profile.username, score |-> game.score]

\* C27 as stated: whenever the loop goes from Playing to GameOver, the
\* leaderboard in memory has the entry of the run that ended and
\* player.lives is 0.
C27_GameOverRecorded ==
    C27_EntersGameOver => (last.frame.recorded /\ C27_OnBoard /\ game.player.lives = 0)

\* C27, what the code has: that holds for the frames that got to the run-end
\* branch; a frame whose pickup save failed enters GameOver as well, with
\* the lives it had and nothing recorded.
C27_RecordedAtRunEnd ==
    C27_EntersGameOver =>
        IF last.frame.run_end
        THEN last.frame.recorded /\ C27_OnBoard /\ game.player.lives = 0
        ELSE /\ last.result = "Err" /\ ~last.frame.recorded
             /\ \E i \in 1..Len(last.frame.picked) : last.frame.picked[i] \in PermanentKinds
             /\ game.player.lives = last.frame.before_damage.lives

(***************************************************************************)
(* Timed effects across a pause, under SpecLoop.                           *)
(***************************************************************************)

\* What is left of the invincibility and of the timed mode at time t
C28_Left(g, t) ==
    [invincible |-> Max(g.player.invincible_until - t, 0),
     temp_mode |-> IF g.player.temp_mode.some
                   THEN Max(g.player.temp_mode.until - t, 0) ELSE 0]

C28_PausedFrame == last'.op = "frame" /\ last'.dispatched = "Paused" /\ now' # now

\* C28 as stated: a frame spent in Paused takes nothing off what is left of
\* the invincibility and of the timed mode, so what is left at resume is
\* what was left at the pause.
C28_PauseKeepsRemaining ==
    [][C28_PausedFrame => C28_Left(game', now') = C28_Left(game, now)]_vars

\* C28, what the code has: a Paused frame leaves the two expiry instants as
\* they are while the clock they are compared with runs on, so what is
\* left shrinks by the time spent paused.
C28_PauseConsumes ==
    [][C28_PausedFrame =>
          /\ game'.player.invincible_until = game.player.invincible_until
          /\ game'.player.temp_mode = game.player.temp_mode
          /\ C28_Left(game', now') =
                [invincible |-> Max(C28_Left(game, now).invincible - (now' - now), 0),
                 temp_mode |-> Max(C28_Left(game, now).temp_mode - (now' - now), 0)]]_vars

(***************************************************************************)
(* The end of the invincibility, under SpecStep.                           *)
(***************************************************************************)

\* C29 as stated: over a frame of a run invincible_until never decreases.
C29_NeverShortened ==
    [][game'.player.invincible_until >= game.player.invincible_until]_vars

\* C29, what the code has: the only frames that bring invincible_until down
\* are those that pick up InvincibleTimed less than a second after the
\* manual key set it: the pickup writes now + 5 s over the key's later
\* instant.  The key and the grace window after a hit never shorten it.
C29_OnlyPickupShortens ==
    [][game'.player.invincible_until < game.player.invincible_until =>
          /\ \E i \in 1..Len(last'.frame.picked) : last'.frame.picked[i] = "InvincibleTimed"
          /\ game'.player.invincible_until = now' + 5000
          /\ game.player.invincible_until <= now + 6000]_vars

(***************************************************************************)
(* The overworld's claim, under SpecWorld.                                 *)
(***************************************************************************)

\* C30 (first half): after every handle_interaction the current map id is a
\* key of the map table, so current_map finds its map.
C30_CurrentIsKey ==
    overworld.world.current \in DOMAIN overworld.world.maps

\* C30: handle_interaction moves the player to a portal's target position
\* only when the current map is then that portal's target map.
C30_MovedOnlySwitching ==
    (last.op = "handle_interaction" /\ last.teleport.some) =>
        /\ overworld.player.pos = last.teleport.to_pos
        /\ overworld.world.current = last.teleport.to_map

\* C30: the other cases keep both the map and the position: E not pressed,
\* no portal in reach, or the portal locked.
C30_OtherwiseUntouched ==
    (last.op = "handle_interaction" /\ ~last.teleport.some) =>
        /\ overworld.player.pos = last.before.pos
        /\ overworld.world.current = last.before.current

====
